---- MODULE Spec2Model ----
(***************************************************************************)
(* Dialogue engine of the calendar bot (src/Lab4/Bot_Test/handlers.py).    *)
(*                                                                         *)
(* Representation of Python values:                                        *)
(*  - a str is a sequence of characters; a character is a TLA+ string.     *)
(*    Latin characters, digits and punctuation are written as they are;    *)
(*    a Cyrillic letter is written "ru_x" (lowercase) or "RU_X"            *)
(*    (uppercase), x being its transliteration: "да" is <<"ru_d","ru_a">>. *)
(*  - None, for an Optional[str], is the one-element sequence <<"None">>,  *)
(*    which is no str (its element is no character).                       *)
(*  - an ISO-8601 date-time is the sequence of its fields                  *)
(*    <<year, month, day, hour, minute, second, offset>>, a date           *)
(*    YYYY-MM-DD the sequence <<year, "-", month, "-", day>>.              *)
(*  - a dict is a function whose DOMAIN is its key set.                    *)
(*  - a confidence is a number of hundredths: 0.80 is 80.                  *)
(***************************************************************************)
EXTENDS Integers, Sequences, FiniteSets, TLC

None == <<"None">>

\* Python truthiness of an Optional[str] / Optional[list]: None and the empty
\* value are false.
Truthy(v) == v # None /\ v # <<>>

----------------------------------------------------------------------------
(* str methods *)

LowerChar(c) ==
    CASE c = "RU_D" -> "ru_d"
      [] c = "RU_A" -> "ru_a"
      [] c = "RU_N" -> "ru_n"
      [] c = "RU_E" -> "ru_e"
      [] c = "RU_T" -> "ru_t"
      [] c = "RU_O" -> "ru_o"
      [] c = "RU_K" -> "ru_k"
      [] c = "RU_B" -> "ru_b"
      [] c = "Y" -> "y"
      [] c = "E" -> "e"
      [] c = "S" -> "s"
      [] c = "N" -> "n"
      [] c = "O" -> "o"
      [] OTHER -> c

lower(s) == [i \in DOMAIN s |-> LowerChar(s[i])]

IsSpace(c) == c \in {" ", "\t", "\n"}

RECURSIVE lstrip(_)
lstrip(s) == IF s # <<>> /\ IsSpace(Head(s)) THEN lstrip(Tail(s)) ELSE s

RECURSIVE rstrip(_)
rstrip(s) ==
    IF s # <<>> /\ IsSpace(s[Len(s)]) THEN rstrip(SubSeq(s, 1, Len(s) - 1)) ELSE s

strip(s) == rstrip(lstrip(s))

\* ', '.join(names)
RECURSIVE Join(_)
Join(names) ==
    IF Len(names) <= 1 THEN (IF names = <<>> THEN <<>> ELSE names[1])
    ELSE names[1] \o <<",", " ">> \o Join(Tail(names))

\* sub in s
Contains(sub, s) ==
    \E i \in 0..(Len(s) - Len(sub)) : SubSeq(s, i + 1, i + Len(sub)) = sub

\* s[:n]
Prefix(s, n) == SubSeq(s, 1, IF Len(s) < n THEN Len(s) ELSE n)

\* s.replace(old, "") for a non-empty old
RECURSIVE Remove(_, _)
Remove(s, old) ==
    IF Len(s) < Len(old) THEN s
    ELSE IF SubSeq(s, 1, Len(old)) = old
         THEN Remove(SubSeq(s, Len(old) + 1, Len(s)), old)
         ELSE <<Head(s)>> \o Remove(Tail(s), old)

----------------------------------------------------------------------------
(* dict operations on clarification_context *)

Put(d, k, v) == [x \in DOMAIN d \cup {k} |-> IF x = k THEN v ELSE d[x]]

\* Mutant: the whole store is cleared.
Del_Clear(d, k) == <<>>

Del(d, k) == [x \in DOMAIN d \ {k} |-> d[x]]
EmptyDict == <<>>

\* d.get(key, default)
Get(d, key, default) == IF key \in DOMAIN d THEN d[key] ELSE default

\* context_data.get(flag) used as a condition
GetFlag(d, flag) == flag \in DOMAIN d /\ d[flag] = TRUE

----------------------------------------------------------------------------
(* Bounds and input domains *)

\* Longest list of clarifying questions the classifier returns.
MaxQuestions == 2

\* The conversation identities (update.effective_user.id).
Users == {"u1"}

\* Config.LLM_CONFIDENCE_THRESHOLD, default "0.80", in hundredths.
LLM_CONFIDENCE_THRESHOLD == 80

Intents == {"create", "list", "delete", "unknown"}

\* Confidences (hundredths) below, at and above the threshold.
Confidences == {79, 80, 100}

\* "Обед"
Title1 == <<"RU_O", "ru_b", "ru_e", "ru_d">>
\* 2025-11-27T15:00:00+03:00 and 2025-11-27T14:00:00+03:00
Start1 == <<"2025", "11", "27", "15", "00", "00", "+03:00">>
End1 == <<"2025", "11", "27", "14", "00", "00", "+03:00">>
\* 2025-11-28
Date1 == <<"2025", "-", "11", "-", "28">>
\* datetime.now().strftime("%Y-%m-%d") at the time of the run
Today == <<"2025", "-", "11", "-", "26">>
\* ["vadim@x", "Аня"]
Participants1 == << <<"v", "@", "x">>, <<"RU_A", "ru_n", "ru_ya">> >>
Description1 == <<"d", "e", "s", "c">>
Location1 == <<"r", "o", "o", "m">>
\* event identifiers: one longer than 8 characters, one shorter
EventId1 == <<"e", "v", "t", "0", "1", "2", "3", "4", "5", "6">>
EventId2 == <<"e", "v", "2">>
EventId3 == <<"e", "v", "3">>
NewEventId == <<"n", "e", "w", "1">>

\* The slots that _handle_create only passes on: all absent, or all given.
PassedOn ==
    {[end |-> None, participants |-> None, description |-> None, location |-> None],
     [end |-> End1, participants |-> Participants1, description |-> Description1,
      location |-> Location1]}

\* SlotsModel: every field Optional, start and end validated as ISO-8601
Slots ==
    {[title |-> t, start |-> s, end |-> p.end, date |-> d,
      participants |-> p.participants, description |-> p.description,
      location |-> p.location, event_id |-> e] :
        t \in {None, <<>>, Title1}, s \in {None, Start1}, d \in {None, Date1},
        e \in {None, <<>>, EventId1}, p \in PassedOn}

\* The first n questions the classifier may ask.
Questions(n) == [i \in 1..n |-> IF i = 1 THEN "q1" ELSE IF i = 2 THEN "q2" ELSE "q3"]

\* ClarifyModel: needed and questions are independent fields
Clarifys == [needed : BOOLEAN, questions : {Questions(n) : n \in 0..MaxQuestions}]

\* LLMResponseModel
IntentResults ==
    [intent : Intents, confidence : Confidences, slots : Slots, clarify : Clarifys]

\* Events of the calendar, in the order of their start times (orderBy startTime).
Event1 == [id |-> EventId1, summary |-> <<"ru_o", "ru_b", "ru_e", "ru_d">>, start |-> Start1]
Event2 ==
    [id |-> EventId2,
     summary |-> <<"RU_O", "RU_B", "RU_E", "RU_D", " ", "2">>,
     start |-> Start1]
Event3 == [id |-> EventId3, summary |-> None, start |-> End1]

CalendarEvents == <<Event1, Event2, Event3>>

\* The subsequence of s at the positions in keep.
RECURSIVE Select(_, _)
Select(s, keep) ==
    IF s = <<>> THEN <<>>
    ELSE (IF Len(s) \in keep THEN Select(SubSeq(s, 1, Len(s) - 1), keep) \o <<s[Len(s)]>>
          ELSE Select(SubSeq(s, 1, Len(s) - 1), keep))

\* What the calendar backend answers to the one call a handler makes: the call
\* fails (HttpError), or it succeeds and, for a list, returns these items.
CalendarOutcomes ==
    {[ok |-> FALSE, items |-> <<>>]}
    \cup {[ok |-> TRUE, items |-> Select(CalendarEvents, keep)] :
            keep \in SUBSET (1..Len(CalendarEvents))}

\* What the classifier answers: no result (None, as the empty sequence) or a
\* validated LLMResponseModel.
LLMOutcomes == {<<>>} \cup {<<r>> : r \in IntentResults}

----------------------------------------------------------------------------
(* What one handler run does, accumulated while it runs:                   *)
(*   ctx        clarification_context                                      *)
(*   replies    the texts passed to update.message.reply_text, in order    *)
(*   calls      the CalendarClient methods called, in order, each with    *)
(*              its arguments and the value it returned                    *)
(*   requests   the requests executed on the Google Calendar service, in   *)
(*              order, each with whether it raised HttpError               *)
(*   llm_calls  the calls of LLMClient.parse_user_message, each with the   *)
(*              utterance passed and the value returned                    *)
(*   trace      the MessageHandler methods entered, in order               *)
(*   pending    for each method entered, the identities that had a pending *)
(*              state when it was entered                                  *)
(*   user_message  the local user_message of handle_message, once set      *)

Begin(ctx) ==
    [ctx |-> ctx, replies |-> <<>>, calls |-> <<>>, requests |-> <<>>, llm_calls |-> <<>>,
     trace |-> <<>>, pending |-> <<>>, user_message |-> <<>>]

reply_text(st, m) == [st EXCEPT !.replies = Append(@, m)]
Enter(st, method) ==
    [st EXCEPT !.trace = Append(@, method), !.pending = Append(@, DOMAIN st.ctx)]
Called(st, c) == [st EXCEPT !.calls = Append(@, c)]
\* rs: the requests a CalendarClient method executed (none, or one)
Sent(st, rs) == [st EXCEPT !.requests = @ \o rs]

----------------------------------------------------------------------------
(* CalendarClient: the value each method returns for the backend's answer  *)

\* delete_event: True, or False on HttpError
delete_event(event_id, cal) == cal.ok

\* service.events().delete(calendarId='primary', eventId=event_id).execute()
delete_request(event_id, cal) ==
    <<[api |-> "events.delete", eventId |-> event_id, failed |-> ~cal.ok]>>

\* list_events: the items, or [] on HttpError
list_events(date, cal) == IF cal.ok THEN cal.items ELSE <<>>

\* service.events().list(calendarId='primary', timeMin=..., timeMax=...).execute()
list_request(date, cal) ==
    <<[api |-> "events.list", date |-> date, failed |-> ~cal.ok]>>

\* event.get('summary', '')
SummaryOrEmpty(event) == IF event.summary = None THEN <<>> ELSE event.summary

RECURSIVE FilterByTitle(_, _)
FilterByTitle(events, title_lower) ==
    IF events = <<>> THEN <<>>
    ELSE (IF Contains(title_lower, lower(SummaryOrEmpty(Head(events))))
          THEN <<Head(events)>>
          ELSE <<>>) \o FilterByTitle(Tail(events), title_lower)

\* Mutant: every event of the date is a match.
find_events_by_title_and_date_AnyTitle(title, date, cal) == list_events(date, cal)

find_events_by_title_and_date(title, date, cal) ==
    FilterByTitle(list_events(date, cal), lower(title))

\* create_event: the created event (here in a one-element sequence), or None
\* (the empty sequence) on HttpError and on any other exception, such as a start
\* that cannot be parsed
create_event(args, cal) ==
    IF ~Truthy(args.start_datetime) \/ ~cal.ok THEN <<>>
    ELSE <<[id |-> NewEventId, summary |-> args.title, htmlLink |-> "link"]>>

----------------------------------------------------------------------------
(* CalendarClient.create_event: the event body it sends.                   *)
(* A datetime object is a record of numbers with its UTC offset (tzinfo).  *)

\* Config.DEFAULT_EVENT_DURATION_MIN, default "60"
DEFAULT_EVENT_DURATION_MIN == 60

\* Config.TIMEZONE, default "Europe/Moscow", and its UTC offset
TIMEZONE == "Europe/Moscow"
TimezoneOffset == "+03:00"

\* The two-digit fields of ISO-8601 text and the years written in the model
TwoDigits ==
    <<"00", "01", "02", "03", "04", "05", "06", "07", "08", "09",
      "10", "11", "12", "13", "14", "15", "16", "17", "18", "19",
      "20", "21", "22", "23", "24", "25", "26", "27", "28", "29",
      "30", "31", "32", "33", "34", "35", "36", "37", "38", "39",
      "40", "41", "42", "43", "44", "45", "46", "47", "48", "49",
      "50", "51", "52", "53", "54", "55", "56", "57", "58", "59">>
Years == <<"2024", "2025", "2026", "2027">>

\* int() of a two-digit field and of a year
Number(field) == CHOOSE n \in 0..59 : TwoDigits[n + 1] = field
YearNumber(field) == 2023 + CHOOSE i \in DOMAIN Years : Years[i] = field

\* _parse_datetime: "Z" is read as +00:00, a text without offset gets the
\* configured time zone
parse_datetime(dt_str) ==
    [year |-> YearNumber(dt_str[1]),
     month |-> Number(dt_str[2]),
     day |-> Number(dt_str[3]),
     hour |-> Number(dt_str[4]),
     minute |-> Number(dt_str[5]),
     second |-> Number(dt_str[6]),
     tzinfo |-> IF dt_str[7] = "Z" THEN "+00:00"
                ELSE IF dt_str[7] = "" THEN TimezoneOffset
                ELSE dt_str[7]]

IsLeap(year) == (year % 4 = 0 /\ year % 100 # 0) \/ year % 400 = 0

DaysInMonth(year, month) ==
    CASE month = 2 -> (IF IsLeap(year) THEN 29 ELSE 28)
      [] month \in {4, 6, 9, 11} -> 30
      [] OTHER -> 31

\* dt + timedelta(days=n)
RECURSIVE plus_days(_, _)
plus_days(dt, n) ==
    IF n = 0 THEN dt
    ELSE plus_days(
           IF dt.day < DaysInMonth(dt.year, dt.month) THEN [dt EXCEPT !.day = @ + 1]
           ELSE IF dt.month < 12 THEN [dt EXCEPT !.day = 1, !.month = @ + 1]
           ELSE [dt EXCEPT !.day = 1, !.month = 1, !.year = @ + 1],
           n - 1)

\* dt + timedelta(minutes=minutes): the wall clock moves, the offset stays
plus_minutes(dt, minutes) ==
    LET total == dt.hour * 60 + dt.minute + minutes
    IN  plus_days([dt EXCEPT !.hour = (total % 1440) \div 60, !.minute = total % 60],
                  total \div 1440)

\* dt.isoformat()
isoformat(dt) ==
    <<Years[dt.year - 2023], TwoDigits[dt.month + 1], TwoDigits[dt.day + 1],
      TwoDigits[dt.hour + 1], TwoDigits[dt.minute + 1], TwoDigits[dt.second + 1],
      dt.tzinfo>>

\* Mutant: when the end precedes the start the two are exchanged.
EventTimes_Ordered(start_datetime, end_datetime) ==
    LET start_dt == parse_datetime(start_datetime)
        end_dt == IF Truthy(end_datetime) THEN parse_datetime(end_datetime)
                  ELSE plus_minutes(start_dt, DEFAULT_EVENT_DURATION_MIN)
        Stamp(dt) == (((dt.year * 12 + dt.month) * 31 + dt.day) * 24 + dt.hour) * 60 + dt.minute
    IN  IF Stamp(end_dt) < Stamp(start_dt)
        THEN [start_dt |-> end_dt, end_dt |-> start_dt]
        ELSE [start_dt |-> start_dt, end_dt |-> end_dt]

\* start_dt and end_dt of create_event
EventTimes(start_datetime, end_datetime) ==
    LET start_dt == parse_datetime(start_datetime)
    IN  [start_dt |-> start_dt,
         end_dt |-> IF Truthy(end_datetime) THEN parse_datetime(end_datetime)
                    ELSE plus_minutes(start_dt, DEFAULT_EVENT_DURATION_MIN)]

\* "Участники: "
ParticipantsLabel ==
    <<"RU_U", "ru_ch", "ru_a", "ru_s", "ru_t", "ru_n", "ru_i", "ru_k", "ru_i", ":", " ">>

\* The loop over participants: rest is what is left of the list, acc the
\* attendees and the description so far.
RECURSIVE AddParticipants(_, _, _)
AddParticipants(rest, participants, acc) ==
    IF rest = <<>> THEN acc
    ELSE AddParticipants(
           Tail(rest), participants,
           IF Contains(<<"@">>, Head(rest))
           THEN [acc EXCEPT !.attendees = Append(@, [email |-> Head(rest)])]
           ELSE [acc EXCEPT !.description =
                    IF Truthy(@) THEN @ \o <<"\n">> \o ParticipantsLabel \o Join(participants)
                    ELSE ParticipantsLabel \o Join(participants)])

\* An optional key of the event body
Optional(key, present, value) == IF present THEN key :> value ELSE <<>>

\* event_body of create_event
event_body(args) ==
    LET times == EventTimes(args.start_datetime, args.end_datetime)
        parts == AddParticipants(
                   IF Truthy(args.participants) THEN args.participants ELSE <<>>,
                   args.participants,
                   [attendees |-> <<>>, description |-> args.description])
    IN  [summary |-> args.title,
         start |-> [dateTime |-> isoformat(times.start_dt), timeZone |-> TIMEZONE],
         end |-> [dateTime |-> isoformat(times.end_dt), timeZone |-> TIMEZONE]]
        @@ Optional("description", Truthy(parts.description), parts.description)
        @@ Optional("location", Truthy(args.location), args.location)
        @@ Optional("attendees", parts.attendees # <<>>, parts.attendees)

\* service.events().insert(calendarId='primary', body=event_body).execute():
\* not reached when the start cannot be parsed
insert_request(args, cal) ==
    IF ~Truthy(args.start_datetime) THEN <<>>
    ELSE <<[api |-> "events.insert", body |-> event_body(args), failed |-> ~cal.ok]>>

----------------------------------------------------------------------------
(* Formatting *)

\* dt.strftime("%d.%m.%Y %H:%M")
format_datetime_for_user(dt) == <<dt[3], ".", dt[2], ".", dt[1], " ", dt[4], ":", dt[5]>>

\* dt.strftime("%Y-%m-%d")
DateOfDatetime(dt) == <<dt[1], "-", dt[2], "-", dt[3]>>

\* dt.strftime("%Y-%m-%d %H:%M")
DateTimeMinutes(dt) == <<dt[1], "-", dt[2], "-", dt[3], " ", dt[4], ":", dt[5]>>

\* datetime.strptime(date_str, "%Y-%m-%d").strftime("%d.%m.%Y")
format_date_for_user(d) == <<d[5], ".", d[3], ".", d[1]>>

\* intent_map.get(intent, <the generic action>): the action named in the question
IntentAction(intent) ==
    CASE intent = "create" -> "create an event"
      [] intent = "list" -> "show events"
      [] intent = "delete" -> "delete an event"
      [] OTHER -> "perform an action"

Part(label, present, value) ==
    IF present THEN <<[label |-> label, value |-> value]>> ELSE <<>>

\* The lines of the confirmation text after its first line.
format_confirmation(r) ==
    [action |-> IntentAction(r.intent),
     parts |->
        Part("title", Truthy(r.slots.title), r.slots.title)
        \o Part("start", Truthy(r.slots.start),
                IF Truthy(r.slots.start) THEN format_datetime_for_user(r.slots.start)
                ELSE None)
        \o Part("end", Truthy(r.slots.end),
                IF Truthy(r.slots.end) THEN format_datetime_for_user(r.slots.end)
                ELSE None)
        \o Part("location", Truthy(r.slots.location), r.slots.location)
        \o Part("participants", Truthy(r.slots.participants),
                IF Truthy(r.slots.participants) THEN Join(r.slots.participants) ELSE None)]

----------------------------------------------------------------------------
(* Action dispatcher: _handle_create, _handle_list, _handle_delete.        *)
(* cal is the backend's answer to the call the handler makes, if any.      *)

\* Mutant: description and location are passed in each other's place.
CreateArguments_Swapped(slots) ==
    [op |-> "create_event",
     title |-> slots.title,
     start_datetime |-> slots.start,
     end_datetime |-> slots.end,
     description |-> slots.location,
     location |-> slots.description,
     participants |-> slots.participants]

\* The keyword arguments of calendar_client.create_event
CreateArguments(slots) ==
    [op |-> "create_event",
     title |-> slots.title,
     start_datetime |-> slots.start,
     end_datetime |-> slots.end,
     description |-> slots.description,
     location |-> slots.location,
     participants |-> slots.participants]

\* Mutant: the request is refused only when both the title and the start are missing.
CreateLacksSlot_Both(slots) == ~Truthy(slots.title) /\ ~Truthy(slots.start)

\* not slots.title or not slots.start
CreateLacksSlot(slots) == ~Truthy(slots.title) \/ ~Truthy(slots.start)

handle_create(st0, u, r, cal) ==
    LET st == Enter(st0, "_handle_create")
        slots == r.slots
    IN  IF CreateLacksSlot(slots)
        THEN reply_text(st, [msg |-> "create_needs_title_and_start"])
        ELSE LET event == create_event(CreateArguments(slots), cal)
                 st1 == Called(Sent(st, insert_request(CreateArguments(slots), cal)),
                               CreateArguments(slots) @@ [returned |-> event])
             IN  IF event # <<>>
                 THEN reply_text(st1,
                        [msg |-> "created",
                         title |-> slots.title,
                         start |-> format_datetime_for_user(slots.start),
                         parts |->
                            Part("location", Truthy(slots.location), slots.location)
                            \o Part("participants", Truthy(slots.participants),
                                    IF Truthy(slots.participants)
                                    THEN Join(slots.participants) ELSE None),
                         id |-> event[1].id,
                         link |-> event[1].htmlLink])
                 ELSE reply_text(st1, [msg |-> "create_failed"])

\* Mutant: the date of slots.start comes before slots.date.
TargetDate_StartFirst(slots) ==
    IF Truthy(slots.start) THEN DateOfDatetime(slots.start)
    ELSE IF Truthy(slots.date) THEN slots.date
    ELSE None

\* Mutant: without a date and a start the date is today's, as in _handle_delete.
TargetDate_Today(slots) ==
    IF Truthy(slots.date) THEN slots.date
    ELSE IF Truthy(slots.start) THEN DateOfDatetime(slots.start)
    ELSE Today

\* slots.date, else the date of slots.start, else None
TargetDate(slots) ==
    IF Truthy(slots.date) THEN slots.date
    ELSE IF Truthy(slots.start) THEN DateOfDatetime(slots.start)
    ELSE None

\* One line of the list of events: its number, time, title and identifier[:8]
ListLine(i, event) ==
    [n |-> i,
     time |-> <<event.start[4], ":", event.start[5]>>,
     summary |-> IF event.summary = None THEN <<"untitled">> ELSE event.summary,
     id |-> Prefix(event.id, 8)]

handle_list(st0, u, r, cal) ==
    LET st == Enter(st0, "_handle_list")
        target_date == TargetDate(r.slots)
    IN  IF ~Truthy(target_date)
        THEN reply_text(st, [msg |-> "need_date"])
        ELSE LET events == list_events(target_date, cal)
                 st1 == Called(Sent(st, list_request(target_date, cal)),
                          [op |-> "list_events", date |-> target_date, returned |-> events])
             IN  IF events = <<>>
                 THEN reply_text(st1,
                        [msg |-> "no_events", date |-> format_date_for_user(target_date)])
                 ELSE reply_text(st1,
                        [msg |-> "events",
                         date |-> format_date_for_user(target_date),
                         lines |-> [i \in 1..Len(events) |-> ListLine(i, events[i])]])

\* Mutant: the intent-confirmation flag is set as well.
DeleteConfirmationState_BothFlags(event) ==
    [waiting_delete_confirmation |-> TRUE, waiting_confirmation |-> TRUE,
     event_id |-> event.id]

\* The pending state stored when the title search finds one event.
DeleteConfirmationState(event) ==
    [waiting_delete_confirmation |-> TRUE, event_id |-> event.id]

\* Mutant: the identifier is shown in full.
CandidateLine_FullId(i, event) ==
    [n |-> i,
     summary |-> IF event.summary = None THEN <<"untitled">> ELSE event.summary,
     id |-> event.id]

\* One candidate of the title search: its number, title and identifier[:8]
CandidateLine(i, event) ==
    [n |-> i,
     summary |-> IF event.summary = None THEN <<"untitled">> ELSE event.summary,
     id |-> Prefix(event.id, 8)]

\* Mutant: the first event found is deleted without a confirmation.
DeleteByTitle_DeletesAtOnce(st, u, slots, cal) ==
    IF ~Truthy(slots.title)
    THEN reply_text(st, [msg |-> "delete_needs_title"])
    ELSE LET target_date == IF Truthy(TargetDate(slots)) THEN TargetDate(slots) ELSE Today
             st1 == Called(Sent(st, list_request(target_date, cal)),
                      [op |-> "list_events",
                       date |-> target_date,
                       returned |-> list_events(target_date, cal)])
             matching_events == find_events_by_title_and_date(slots.title, target_date, cal)
         IN  IF matching_events = <<>>
             THEN reply_text(st1,
                    [msg |-> "not_found",
                     title |-> slots.title,
                     date |-> format_date_for_user(target_date)])
             ELSE reply_text(
                    Called(st1, [op |-> "delete_event",
                                 event_id |-> matching_events[1].id,
                                 returned |-> TRUE]),
                    [msg |-> "deleted"])

\* _handle_delete once slots.event_id is known to be absent
DeleteByTitle(st, u, slots, cal) ==
    IF ~Truthy(slots.title)
    THEN reply_text(st, [msg |-> "delete_needs_title"])
    ELSE LET target_date == IF Truthy(TargetDate(slots)) THEN TargetDate(slots) ELSE Today
             st1 == Called(Sent(st, list_request(target_date, cal)),
                      [op |-> "list_events",
                       date |-> target_date,
                       returned |-> list_events(target_date, cal)])
             matching_events == find_events_by_title_and_date(slots.title, target_date, cal)
         IN  IF matching_events = <<>>
             THEN reply_text(st1,
                    [msg |-> "not_found",
                     title |-> slots.title,
                     date |-> format_date_for_user(target_date)])
             ELSE IF Len(matching_events) = 1
             THEN reply_text(
                    [st1 EXCEPT !.ctx = Put(@, u, DeleteConfirmationState(matching_events[1]))],
                    [msg |-> "found_one_delete_it",
                     summary |-> IF matching_events[1].summary = None
                                 THEN <<"untitled">> ELSE matching_events[1].summary,
                     start |-> DateTimeMinutes(matching_events[1].start)])
             ELSE reply_text(st1,
                    [msg |-> "found_several",
                     title |-> slots.title,
                     lines |-> [i \in 1..Len(matching_events) |->
                                    CandidateLine(i, matching_events[i])]])

\* _handle_delete when slots.event_id is given
DeleteById(st, event_id, cal) ==
    LET st1 == Called(Sent(st, delete_request(event_id, cal)),
                 [op |-> "delete_event",
                  event_id |-> event_id,
                  returned |-> delete_event(event_id, cal)])
    IN  IF delete_event(event_id, cal)
        THEN reply_text(st1, [msg |-> "deleted"])
        ELSE reply_text(st1, [msg |-> "delete_failed"])

\* Mutant: a title is searched for before the identifier is looked at.
handle_delete_TitleFirst(st0, u, r, cal) ==
    LET st == Enter(st0, "_handle_delete")
    IN  IF Truthy(r.slots.title)
        THEN DeleteByTitle(st, u, r.slots, cal)
        ELSE IF Truthy(r.slots.event_id)
        THEN DeleteById(st, r.slots.event_id, cal)
        ELSE DeleteByTitle(st, u, r.slots, cal)

handle_delete(st0, u, r, cal) ==
    LET st == Enter(st0, "_handle_delete")
    IN  IF Truthy(r.slots.event_id)
        THEN DeleteById(st, r.slots.event_id, cal)
        ELSE DeleteByTitle(st, u, r.slots, cal)

----------------------------------------------------------------------------
(* Dialogue engine: _process_llm_response, _handle_clarification_response  *)

\* llm_response.clarify.needed and llm_response.clarify.questions
NeedsClarification(clarify) == clarify.needed /\ clarify.questions # <<>>

\* Mutant: the threshold itself asks for confirmation (<= for <).
LowConfidence_AtMost(confidence) == confidence <= LLM_CONFIDENCE_THRESHOLD

\* llm_response.confidence < self.confidence_threshold
LowConfidence(confidence) == confidence < LLM_CONFIDENCE_THRESHOLD

\* Mutant: the cursor starts at the second question.
ClarificationState_FromSecond(r) ==
    [intent |-> r.intent,
     slots |-> r.slots,
     questions |-> r.clarify.questions,
     current_question_index |-> 1]

\* The pending state stored for clarifying questions.
ClarificationState(r) ==
    [intent |-> r.intent,
     slots |-> r.slots,
     questions |-> r.clarify.questions,
     current_question_index |-> 0]

\* Mutant: the waiting_confirmation flag is not stored.
ConfirmationState_NoFlag(r) == [intent |-> r.intent, slots |-> r.slots]

\* The pending state stored for the confirmation of a guessed intent.
ConfirmationState(r) ==
    [intent |-> r.intent, slots |-> r.slots, waiting_confirmation |-> TRUE]

\* Mutant: the chain has no branch for "unknown", as the one after a confirmation.
Dispatch_UnknownSilent(st, u, r, cal) ==
    CASE r.intent = "create" -> handle_create(st, u, r, cal)
      [] r.intent = "list" -> handle_list(st, u, r, cal)
      [] r.intent = "delete" -> handle_delete(st, u, r, cal)
      [] OTHER -> st

\* The if/elif chain on llm_response.intent of _process_llm_response
Dispatch(st, u, r, cal) ==
    CASE r.intent = "create" -> handle_create(st, u, r, cal)
      [] r.intent = "list" -> handle_list(st, u, r, cal)
      [] r.intent = "delete" -> handle_delete(st, u, r, cal)
      [] r.intent = "unknown" -> reply_text(st, [msg |-> "help_unknown"])

process_llm_response(st0, u, r, cal) ==
    LET st == Enter(st0, "_process_llm_response")
    IN  IF NeedsClarification(r.clarify)
        THEN reply_text([st EXCEPT !.ctx = Put(@, u, ClarificationState(r))],
                        [msg |-> "question", text |-> r.clarify.questions[1]])
        ELSE IF LowConfidence(r.confidence)
        THEN reply_text([st EXCEPT !.ctx = Put(@, u, ConfirmationState(r))],
                        [msg |-> "confirm_intent", summary |-> format_confirmation(r)])
        ELSE Dispatch(st, u, r, cal)

\* "да", "yes", "давай", "ок", "хорошо"
AffirmativeTokens ==
    {<<"ru_d", "ru_a">>,
     <<"y", "e", "s">>,
     <<"ru_d", "ru_a", "ru_v", "ru_a", "ru_j">>,
     <<"ru_o", "ru_k">>,
     <<"ru_h", "ru_o", "ru_r", "ru_o", "ru_sh", "ru_o">>}

\* Mutant: "неправильно" is not a negative token.
NegativeTokens_Short == {<<"ru_n", "ru_e", "ru_t">>, <<"n", "o">>, <<"ru_n", "ru_e">>}

\* "нет", "no", "не", "неправильно"
NegativeTokens ==
    {<<"ru_n", "ru_e", "ru_t">>,
     <<"n", "o">>,
     <<"ru_n", "ru_e">>,
     <<"ru_n", "ru_e", "ru_p", "ru_r", "ru_a", "ru_v", "ru_i", "ru_l", "ru_soft", "ru_n", "ru_o">>}

\* Mutant: the reply is trimmed but not lowercased.
Normalized_NotLowered(user_message) == strip(user_message)

\* user_message.lower().strip()
Normalized(user_message) == strip(lower(user_message))

\* Mutant: every reply that is not a "no" counts as a "yes".
IsAffirmative_NotNegative(user_message) == Normalized(user_message) \notin NegativeTokens

\* user_message_lower in ["да", "yes", "давай", "ок", "хорошо"]
IsAffirmative(user_message) == Normalized(user_message) \in AffirmativeTokens

\* Mutant: every reply that is not a "yes" counts as a "no".
IsNegative_NotAffirmative(user_message) == Normalized(user_message) \notin AffirmativeTokens

\* user_message_lower in ["нет", "no", "не", "неправильно"]
IsNegative(user_message) == Normalized(user_message) \in NegativeTokens

\* The branch taken while waiting_delete_confirmation is set
DeleteConfirmationReply(st, u, user_message, cal) ==
    LET context_data == st.ctx[u]
    IN  IF IsAffirmative(user_message)
        THEN LET event_id == context_data.event_id
                 st1 == IF Truthy(event_id) THEN DeleteById(st, event_id, cal) ELSE st
             IN  [st1 EXCEPT !.ctx = Del(@, u)]
        ELSE IF IsNegative(user_message)
        THEN reply_text([st EXCEPT !.ctx = Del(@, u)], [msg |-> "delete_cancelled"])
        ELSE reply_text(st, [msg |-> "answer_yes_or_no"])

\* The LLMResponseModel rebuilt from a confirmed pending state
ConfirmedResponse(context_data) ==
    [intent |-> context_data.intent,
     confidence |-> 100,
     slots |-> context_data.slots,
     clarify |-> [needed |-> FALSE, questions |-> <<>>]]

\* The if/elif chain on intent after an affirmative reply (no branch for "unknown")
DispatchConfirmed(st, u, r, cal) ==
    CASE r.intent = "create" -> handle_create(st, u, r, cal)
      [] r.intent = "list" -> handle_list(st, u, r, cal)
      [] r.intent = "delete" -> handle_delete(st, u, r, cal)
      [] OTHER -> st

\* Mutant: the state is removed after the dispatcher has run.
IntentConfirmationReply_DispatchFirst(st, u, user_message, cal) ==
    LET context_data == st.ctx[u]
    IN  IF IsAffirmative(user_message)
        THEN [DispatchConfirmed(st, u, ConfirmedResponse(context_data), cal)
                 EXCEPT !.ctx = Del(@, u)]
        ELSE IF IsNegative(user_message)
        THEN reply_text([st EXCEPT !.ctx = Del(@, u)], [msg |-> "rephrase_request"])
        ELSE reply_text(st, [msg |-> "answer_yes_or_no"])

\* The branch taken while waiting_confirmation is set
IntentConfirmationReply(st, u, user_message, cal) ==
    LET context_data == st.ctx[u]
    IN  IF IsAffirmative(user_message)
        THEN DispatchConfirmed([st EXCEPT !.ctx = Del(@, u)], u,
                               ConfirmedResponse(context_data), cal)
        ELSE IF IsNegative(user_message)
        THEN reply_text([st EXCEPT !.ctx = Del(@, u)], [msg |-> "rephrase_request"])
        ELSE reply_text(st, [msg |-> "answer_yes_or_no"])

\* Mutant: the cursor advances but the question sent is the one already asked.
ClarificationAnswer_RepeatsQuestion(st, u, user_message) ==
    LET context_data == st.ctx[u]
        questions == Get(context_data, "questions", <<>>)
        current_index == Get(context_data, "current_question_index", 0)
    IN  IF current_index < Len(questions) - 1
        THEN reply_text(
               [st EXCEPT !.ctx[u] =
                    Put(context_data, "current_question_index", current_index + 1)],
               [msg |-> "question", text |-> questions[current_index + 1]])
        ELSE reply_text(
               reply_text([st EXCEPT !.ctx = Del(@, u)], [msg |-> "thanks_processing"]),
               [msg |-> "repeat_request"])

\* Mutant: the answer is stored as the title of the pending request.
ClarificationAnswer_Merges(st, u, user_message) ==
    LET context_data == st.ctx[u]
        questions == Get(context_data, "questions", <<>>)
        current_index == Get(context_data, "current_question_index", 0)
    IN  IF current_index < Len(questions) - 1
        THEN reply_text(
               [st EXCEPT !.ctx[u] =
                    Put(Put(context_data, "current_question_index", current_index + 1),
                        "slots", [context_data.slots EXCEPT !.title = user_message])],
               [msg |-> "question", text |-> questions[current_index + 2]])
        ELSE reply_text(
               reply_text([st EXCEPT !.ctx = Del(@, u)], [msg |-> "thanks_processing"]),
               [msg |-> "repeat_request"])

\* The branch taken for an answer to a clarifying question
ClarificationAnswer(st, u, user_message) ==
    LET context_data == st.ctx[u]
        questions == Get(context_data, "questions", <<>>)
        current_index == Get(context_data, "current_question_index", 0)
    IN  IF current_index < Len(questions) - 1
        THEN reply_text(
               [st EXCEPT !.ctx[u] =
                    Put(context_data, "current_question_index", current_index + 1)],
               [msg |-> "question", text |-> questions[current_index + 2]])
        ELSE reply_text(
               reply_text([st EXCEPT !.ctx = Del(@, u)], [msg |-> "thanks_processing"]),
               [msg |-> "repeat_request"])

handle_clarification_response(st0, u, user_message, cal) ==
    LET st == Enter(st0, "_handle_clarification_response")
        context_data == st.ctx[u]
    IN  IF GetFlag(context_data, "waiting_delete_confirmation")
        THEN DeleteConfirmationReply(st, u, user_message, cal)
        ELSE IF GetFlag(context_data, "waiting_confirmation")
        THEN IntentConfirmationReply(st, u, user_message, cal)
        ELSE ClarificationAnswer(st, u, user_message)

----------------------------------------------------------------------------
(* Conversation driver: handle_message and the command handlers.           *)
(* text is update.message.text, llm the classifier's answer if it is asked.*)

\* Mutant: a classifier call without a result is repeated once.
handle_message_AsksAgain(st0, u, text, llm, cal) ==
    LET user_message == strip(text)
        st == [Enter(st0, "handle_message") EXCEPT !.user_message = user_message]
    IN  IF u \in DOMAIN st.ctx
        THEN handle_clarification_response(st, u, user_message, cal)
        ELSE LET st1 == [st EXCEPT !.llm_calls =
                            Append(@, [utterance |-> user_message, returned |-> llm])]
             IN  IF llm = <<>>
                 THEN reply_text([st1 EXCEPT !.llm_calls = Append(@, @[1])],
                                 [msg |-> "llm_error"])
                 ELSE process_llm_response(st1, u, llm[1], cal)

\* Mutant: the classifier is asked whether or not a pending state exists.
handle_message_AlwaysClassifies(st0, u, text, llm, cal) ==
    LET user_message == strip(text)
        st == [Enter(st0, "handle_message") EXCEPT !.user_message = user_message]
        st1 == [st EXCEPT !.llm_calls =
                   Append(@, [utterance |-> user_message, returned |-> llm])]
    IN  IF llm = <<>>
        THEN reply_text(st1, [msg |-> "llm_error"])
        ELSE process_llm_response(st1, u, llm[1], cal)

handle_message(st0, u, text, llm, cal) ==
    LET user_message == strip(text)
        st == [Enter(st0, "handle_message") EXCEPT !.user_message = user_message]
    IN  IF u \in DOMAIN st.ctx
        THEN handle_clarification_response(st, u, user_message, cal)
        ELSE LET st1 == [st EXCEPT !.llm_calls =
                            Append(@, [utterance |-> user_message, returned |-> llm])]
             IN  IF llm = <<>>
                 THEN reply_text(st1, [msg |-> "llm_error"])
                 ELSE process_llm_response(st1, u, llm[1], cal)

handle_start(st0) == reply_text(Enter(st0, "handle_start"), [msg |-> "welcome"])

CommandAdd == <<"/", "a", "d", "d">>
CommandView == <<"/", "v", "i", "e", "w">>
CommandDelete == <<"/", "d", "e", "l", "e", "t", "e">>

\* Mutant: the text after the command word is what is forwarded.
handle_add_ForwardsTrailingText(st0, u, text, llm, cal) ==
    LET st == Enter(st0, "handle_add")
        command_text == strip(Remove(text, CommandAdd))
    IN  IF command_text = <<>>
        THEN reply_text(st, [msg |-> "usage_add"])
        ELSE handle_message(st, u, command_text, llm, cal)

handle_add(st0, u, text, llm, cal) ==
    LET st == Enter(st0, "handle_add")
        command_text == strip(Remove(text, CommandAdd))
    IN  IF command_text = <<>>
        THEN reply_text(st, [msg |-> "usage_add"])
        ELSE handle_message(st, u, text, llm, cal)

\* "покажи события на "
ShowEventsOn ==
    <<"ru_p", "ru_o", "ru_k", "ru_a", "ru_zh", "ru_i", " ",
      "ru_s", "ru_o", "ru_b", "ru_y", "ru_t", "ru_i", "ru_ya", " ", "ru_n", "ru_a", " ">>

handle_view(st0, u, text, llm, cal) ==
    LET st == Enter(st0, "handle_view")
        command_text == strip(Remove(text, CommandView))
    IN  IF command_text = <<>>
        THEN reply_text(st, [msg |-> "usage_view"])
        ELSE handle_message(st, u, ShowEventsOn \o command_text, llm, cal)

\* "удали "
DeleteWord == <<"ru_u", "ru_d", "ru_a", "ru_l", "ru_i", " ">>

\* Mutant: an argument of 50 characters is an identifier too.
LooksLikeEventId_AtMost50(command_text) ==
    Len(command_text) <= 50 /\ ~Contains(<<" ">>, command_text)

\* len(command_text) < 50 and not " " in command_text
LooksLikeEventId(command_text) == Len(command_text) < 50 /\ ~Contains(<<" ">>, command_text)

handle_delete_command(st0, u, text, llm, cal) ==
    LET st == Enter(st0, "handle_delete_command")
        command_text == strip(Remove(text, CommandDelete))
    IN  IF command_text = <<>>
        THEN reply_text(st, [msg |-> "usage_delete"])
        ELSE IF LooksLikeEventId(command_text)
        THEN LET st1 == Called(Sent(st, delete_request(command_text, cal)),
                          [op |-> "delete_event",
                           event_id |-> command_text,
                           returned |-> delete_event(command_text, cal)])
             IN  IF delete_event(command_text, cal)
                 THEN reply_text(st1, [msg |-> "deleted"])
                 ELSE reply_text(st1, [msg |-> "delete_failed_check_id"])
        ELSE handle_message(st, u, DeleteWord \o command_text, llm, cal)

----------------------------------------------------------------------------
(* Inbound updates *)

\* Texts of plain messages (filters.TEXT & ~filters.COMMAND):
\* "да", " Да ", "YES", "давай", "ок", "хорошо", "нет", "No", "не",
\* "неправильно", "да!", "удали обед"
Texts ==
    {<<"ru_d", "ru_a">>,
     <<" ", "RU_D", "ru_a", " ">>,
     <<"Y", "E", "S">>,
     <<"ru_d", "ru_a", "ru_v", "ru_a", "ru_j">>,
     <<"ru_o", "ru_k">>,
     <<"ru_h", "ru_o", "ru_r", "ru_o", "ru_sh", "ru_o">>,
     <<"ru_n", "ru_e", "ru_t">>,
     <<"N", "o">>,
     <<"ru_n", "ru_e">>,
     <<"ru_n", "ru_e", "ru_p", "ru_r", "ru_a", "ru_v", "ru_i", "ru_l", "ru_soft", "ru_n", "ru_o">>,
     <<"ru_d", "ru_a", "!">>,
     DeleteWord \o <<"ru_o", "ru_b", "ru_e", "ru_d">>}

\* A string of n characters "x"
Xs(n) == [i \in 1..n |-> "x"]

\* "/add", "/add удали обед", "/add да"
AddTexts ==
    {CommandAdd,
     CommandAdd \o <<" ">> \o DeleteWord \o <<"ru_o", "ru_b", "ru_e", "ru_d">>,
     CommandAdd \o <<" ", "ru_d", "ru_a">>}

\* "/view", "/view 2025-11-28"
ViewTexts == {CommandView, CommandView \o <<" ">> \o Date1}

\* "/delete", "/delete evt0123456", "/delete обед 2", "/delete x...x" (50 characters)
DeleteTexts ==
    {CommandDelete,
     CommandDelete \o <<" ">> \o EventId1,
     CommandDelete \o <<" ", "ru_o", "ru_b", "ru_e", "ru_d", " ", "2">>,
     CommandDelete \o <<" ">> \o Xs(50)}

----------------------------------------------------------------------------
(* State *)

VARIABLES
    clarification_context,  \* MessageHandler.clarification_context: user_id -> pending state
    update,                 \* the update being handled and what its handler did
    tasks,                  \* the handler coroutines in flight on the event loop
    products,               \* StoreManager.products: id -> the Product's price and stock
    items,                  \* the CartItem objects created so far, each with its fields
    lists,                  \* the list objects that are or were a cart's items
    cart,                   \* ShoppingCart.items: the list object of the cart
    orders,                 \* StoreManager.orders
    call                    \* the last call on the store and what it did

\* The state of the calendar bot and the state of the store (src/Lab1).
botVars == <<clarification_context, update, tasks>>
storeVars == <<products, items, lists, cart, orders, call>>
vars == <<botVars, storeVars>>

\* Most handler coroutines in flight at once.
MaxInFlight == 2

\* No update is being handled.
Polling ==
    [handler |-> "none", user |-> "", text |-> <<>>, before |-> EmptyDict,
     replies |-> <<>>, calls |-> <<>>, requests |-> <<>>, llm_calls |-> <<>>,
     trace |-> <<>>, pending |-> <<>>, user_message |-> <<>>]

\* The store of the demonstration run: two products in stock, no order yet,
\* and an empty cart.
ProductsAtStart ==
    (1 :> [price |-> 10, stock |-> 2]) @@ (2 :> [price |-> 20, stock |-> 1])

\* No call has been made on the store.
NoCall == [op |-> "none"]

Init ==
    /\ clarification_context = EmptyDict
    /\ update = Polling
    /\ tasks = <<>>
    /\ products = ProductsAtStart
    /\ items = <<>>
    /\ lists = <<<<>>>>
    /\ cart = 1
    /\ orders = <<>>
    /\ call = NoCall

\* The handler has run to its end with the effects st.
Handled(handler, u, text, st) ==
    /\ clarification_context' = st.ctx
    /\ update' =
         [handler |-> handler, user |-> u, text |-> text,
          before |-> clarification_context,
          replies |-> st.replies, calls |-> st.calls, requests |-> st.requests,
          llm_calls |-> st.llm_calls, trace |-> st.trace, pending |-> st.pending,
          user_message |-> st.user_message]
    /\ UNCHANGED <<tasks, storeVars>>

\* The answers the classifier can give to u's update: it is asked only when u
\* has no pending state.
Classifier(u) == IF u \in DOMAIN clarification_context THEN {<<>>} ELSE LLMOutcomes

\* The answers the backend can give to the call of a handler run: whether and
\* which method is called does not depend on the answer, so it is read off the
\* run under one answer (probe); only list_events reads the items.
NoAnswer == [ok |-> FALSE, items |-> <<>>]

Backend(probe) ==
    IF probe.calls = <<>> THEN {NoAnswer}
    ELSE IF probe.calls[1].op = "list_events" THEN CalendarOutcomes
    ELSE {NoAnswer, [ok |-> TRUE, items |-> <<>>]}

OnMessage(u) ==
    /\ update = Polling
    /\ \E text \in Texts, llm \in Classifier(u) :
       \E cal \in Backend(handle_message(Begin(clarification_context), u, text, llm, NoAnswer)) :
         Handled("handle_message", u, text,
                 handle_message(Begin(clarification_context), u, text, llm, cal))

OnStart(u) ==
    /\ update = Polling
    /\ Handled("handle_start", u, <<"/", "s", "t", "a", "r", "t">>,
               handle_start(Begin(clarification_context)))

OnAdd(u) ==
    /\ update = Polling
    /\ \E text \in AddTexts, llm \in Classifier(u) :
       \E cal \in Backend(handle_add(Begin(clarification_context), u, text, llm, NoAnswer)) :
         Handled("handle_add", u, text,
                 handle_add(Begin(clarification_context), u, text, llm, cal))

OnView(u) ==
    /\ update = Polling
    /\ \E text \in ViewTexts, llm \in Classifier(u) :
       \E cal \in Backend(handle_view(Begin(clarification_context), u, text, llm, NoAnswer)) :
         Handled("handle_view", u, text,
                 handle_view(Begin(clarification_context), u, text, llm, cal))

OnDeleteCommand(u) ==
    /\ update = Polling
    /\ \E text \in DeleteTexts, llm \in Classifier(u) :
       \E cal \in Backend(handle_delete_command(Begin(clarification_context), u, text, llm,
                                                NoAnswer)) :
         Handled("handle_delete_command", u, text,
                 handle_delete_command(Begin(clarification_context), u, text, llm, cal))

\* The handler's coroutine has returned; the application waits for the next update.
NextUpdate ==
    /\ update # Polling
    /\ update' = Polling
    /\ UNCHANGED <<clarification_context, tasks, storeVars>>

Next ==
    \/ \E u \in Users : OnMessage(u)
    \/ \E u \in Users : OnStart(u)
    \/ \E u \in Users : OnAdd(u)
    \/ \E u \in Users : OnView(u)
    \/ \E u \in Users : OnDeleteCommand(u)
    \/ NextUpdate

Spec == Init /\ [][Next]_vars

----------------------------------------------------------------------------
(* Requests to create an event: the classifier is sure of a create intent  *)
(* and the slots vary in what CalendarClient.create_event computes from.   *)

\* Starts at the end of a day, of a month, of a year and of February, with an
\* offset, with "Z" and without offset
Starts ==
    {Start1,
     <<"2025", "11", "30", "23", "30", "00", "+03:00">>,
     <<"2025", "12", "31", "23", "00", "00", "+03:00">>,
     <<"2024", "02", "28", "23", "59", "00", "+03:00">>,
     <<"2025", "02", "28", "23", "15", "00", "Z">>,
     <<"2025", "11", "27", "15", "00", "00", "">>}

\* No end, an end before Start1, and ends with "Z" and without offset
Ends ==
    {None,
     End1,
     <<"2025", "11", "27", "16", "30", "00", "Z">>,
     <<"2026", "01", "01", "00", "00", "00", "">>}

\* "b@y", "Оля"
Email2 == <<"b", "@", "y">>
Name2 == <<"RU_O", "ru_l", "ru_ya">>

\* No list, the empty list, and lists of e-mails only, of names only and of both
ParticipantLists ==
    {None, <<>>, Participants1,
     <<Participants1[1], Email2>>,
     <<Participants1[2], Name2>>,
     <<Participants1[2], Email2, Name2>>}

CreateSlots ==
    {[title |-> Title1, start |-> s, end |-> e, date |-> None,
      participants |-> ps, description |-> d, location |-> l, event_id |-> None] :
        s \in Starts, e \in Ends, ps \in ParticipantLists,
        d \in {None, Description1}, l \in {None, Location1}}

\* The classifier's answer to a request to create an event
CreateResult(slots) ==
    [intent |-> "create", confidence |-> 100, slots |-> slots,
     clarify |-> [needed |-> FALSE, questions |-> <<>>]]

OnCreateRequest(u) ==
    /\ update = Polling
    /\ \E slots \in CreateSlots, cal \in {NoAnswer, [ok |-> TRUE, items |-> <<>>]} :
         Handled("handle_message", u, Title1,
                 handle_message(Begin(clarification_context), u, Title1,
                                <<CreateResult(slots)>>, cal))

NextCreate ==
    \/ \E u \in Users : OnCreateRequest(u)
    \/ NextUpdate

SpecCreate == Init /\ [][NextCreate]_vars

----------------------------------------------------------------------------
(* src/Lab2/main.py: phone numbers in a text and on a web page.  A str is  *)
(* a sequence of characters, a list of str a sequence of such sequences.   *)

\* \d
Digits == {"0", "1", "2", "3", "4", "5", "6", "7", "8", "9"}

\* \s; "nbsp" is the no-break space U+00A0
WhiteSpace == {" ", "\t", "\n", "nbsp"}

\* The position after the longest run of characters of chars that starts at i.
RECURSIVE SkipAll(_, _, _)
SkipAll(text, i, chars) ==
    IF i <= Len(text) /\ text[i] \in chars THEN SkipAll(text, i + 1, chars) ELSE i

\* {10} of PHONE_RE
PhoneDigits == 10

\* (?:\d[\s\-\(\)]*){n} without the separators after the last digit: the
\* position after the n-th digit, 0 when the groups do not match at i.
RECURSIVE DigitGroups(_, _, _)
DigitGroups(text, i, n) ==
    IF i > Len(text) \/ i = 0 THEN 0
    ELSE IF text[i] \notin Digits THEN 0
    ELSE IF n = 1 THEN i + 1
    ELSE DigitGroups(text, SkipAll(text, i + 1, WhiteSpace \cup {"-", "(", ")"}), n - 1)

\* PHONE_RE matched at position i: the position after the match, 0 when there
\* is none.  The separators after the last digit are taken greedily and given
\* back one by one when a digit follows them.
PHONE_RE_match(text, i) ==
    LET after_prefix ==
            IF text[i] = "8" THEN i + 1
            ELSE IF i < Len(text) /\ text[i] = "+" /\ text[i + 1] = "7" THEN i + 2
            ELSE 0
        first == IF after_prefix = 0 THEN 0
                 ELSE SkipAll(text, after_prefix, WhiteSpace \cup {"-", "("})
        last == DigitGroups(text, first, PhoneDigits)
        end == SkipAll(text, last, WhiteSpace \cup {"-", "(", ")"})
    IN  IF i > 1 /\ text[i - 1] \in Digits THEN 0
        ELSE IF last = 0 THEN 0
        ELSE IF end <= Len(text) /\ text[end] \in Digits
        THEN (IF end > last THEN end - 1 ELSE 0)
        ELSE end

\* [m.group(0) for m in PHONE_RE.finditer(text)], searched from position i
RECURSIVE PHONE_RE_finditer(_, _)
PHONE_RE_finditer(text, i) ==
    LET matched == {j \in i..Len(text) : PHONE_RE_match(text, j) # 0}
        start == CHOOSE j \in matched : \A k \in matched : j <= k
        end == PHONE_RE_match(text, start)
    IN  IF matched = {} THEN <<>>
        ELSE <<SubSeq(text, start, end - 1)>> \o PHONE_RE_finditer(text, end)

IsDigit(c) == c \in Digits

\* DIGITS_RE.sub('', s)
DIGITS_RE_sub(s) == SelectSeq(s, IsDigit)

\* The entry of one match, [] when the match is skipped.
PhoneEntry(s, normalize) ==
    LET digits == DIGITS_RE_sub(s)
    IN  IF Len(digits) = 11 /\ digits[1] \in {"7", "8"}
        THEN IF normalize
             THEN <<<<"+">> \o (IF digits[1] = "8" THEN <<"7">> \o Tail(digits) ELSE digits)>>
             ELSE <<s>>
        ELSE <<>>

RECURSIVE PhoneEntries(_, _)
PhoneEntries(matches, normalize) ==
    IF matches = <<>> THEN <<>>
    ELSE PhoneEntry(Head(matches), normalize) \o PhoneEntries(Tail(matches), normalize)

\* Mutant: the prefix is kept as it was written.
find_phone_numbers_KeepsPrefix(text, normalize) ==
    LET matches == PHONE_RE_finditer(text, 1)
    IN  [k \in DOMAIN matches |->
            IF normalize THEN <<"+">> \o DIGITS_RE_sub(matches[k]) ELSE matches[k]]

find_phone_numbers(text, normalize) == PhoneEntries(PHONE_RE_finditer(text, 1), normalize)

\* The position of the first occurrence of needle in text at or after i, 0
\* when there is none.
FindFrom(needle, text, i) ==
    LET found == {j \in i..(Len(text) - Len(needle) + 1) :
                     SubSeq(text, j, j + Len(needle) - 1) = needle}
    IN  IF found = {} THEN 0 ELSE CHOOSE j \in found : \A k \in found : j <= k

\* re.sub(r'(?is)<tag.*?>.*?</tag>', ' ', html), applied from position i
RECURSIVE SubBlocks(_, _, _, _)
SubBlocks(html, i, open, close) ==
    LET a == FindFrom(open, lower(html), i)
        b == IF a = 0 THEN 0 ELSE FindFrom(<<">">>, html, a + Len(open))
        c == IF b = 0 THEN 0 ELSE FindFrom(close, lower(html), b + 1)
    IN  IF c = 0 THEN SubSeq(html, i, Len(html))
        ELSE SubSeq(html, i, a - 1) \o <<" ">> \o SubBlocks(html, c + Len(close), open, close)

\* re.sub(r'(?is)<!--.*?-->', ' ', html), applied from position i
RECURSIVE SubComments(_, _)
SubComments(html, i) ==
    LET a == FindFrom(<<"<", "!", "-", "-">>, html, i)
        c == IF a = 0 THEN 0 ELSE FindFrom(<<"-", "-", ">">>, html, a + 4)
    IN  IF c = 0 THEN SubSeq(html, i, Len(html))
        ELSE SubSeq(html, i, a - 1) \o <<" ">> \o SubComments(html, c + 3)

\* re.sub(r'(?s)<[^>]+>', ' ', html), applied from position i
RECURSIVE SubTags(_, _)
SubTags(html, i) ==
    LET a == FindFrom(<<"<">>, html, i)
        b == IF a = 0 THEN 0 ELSE FindFrom(<<">">>, html, a + 1)
    IN  IF b = 0 THEN SubSeq(html, i, Len(html))
        ELSE IF b = a + 1 THEN SubSeq(html, i, a) \o SubTags(html, a + 1)
        ELSE SubSeq(html, i, a - 1) \o <<" ">> \o SubTags(html, b + 1)

\* The character references of the pages: &amp; &lt; &gt; &nbsp; &#43;
CharacterReferences ==
    {[ref |-> <<"&", "a", "m", "p", ";">>, char |-> "&"],
     [ref |-> <<"&", "l", "t", ";">>, char |-> "<"],
     [ref |-> <<"&", "g", "t", ";">>, char |-> ">"],
     [ref |-> <<"&", "n", "b", "s", "p", ";">>, char |-> "nbsp"],
     [ref |-> <<"&", "#", "4", "3", ";">>, char |-> "+"]}

\* html.unescape(text)
\* The character reference r stands in text at position j.
RefAt(text, j, r) ==
    j + Len(r.ref) - 1 <= Len(text) /\ SubSeq(text, j, j + Len(r.ref) - 1) = r.ref

\* html.unescape(text): the references are replaced from left to right.
RECURSIVE unescape(_)
unescape(text) ==
    LET found == {j \in DOMAIN text : \E r \in CharacterReferences : RefAt(text, j, r)}
        a == CHOOSE j \in found : \A k \in found : j <= k
        r == CHOOSE r \in CharacterReferences : RefAt(text, a, r)
    IN  IF found = {} THEN text
        ELSE SubSeq(text, 1, a - 1) \o <<r.char>>
                 \o unescape(SubSeq(text, a + Len(r.ref), Len(text)))

\* re.sub(r'\s+', ' ', text).strip(): a character that is not white space is
\* kept, and a run of white space between two such characters is one space.
SqueezeSpaces(text) ==
    LET IsKept(j) == text[j] \notin WhiteSpace
        IsGap(j) == /\ text[j] \in WhiteSpace
                    /\ j > 1 /\ IsKept(j - 1)
                    /\ \E k \in (j + 1)..Len(text) : IsKept(k)
        kept == {j \in DOMAIN text : IsKept(j) \/ IsGap(j)}
        Nth(n) == CHOOSE j \in kept : Cardinality({k \in kept : k <= j}) = n
    IN  [n \in 1..Cardinality(kept) |-> IF IsKept(Nth(n)) THEN text[Nth(n)] ELSE " "]

strip_tags_and_scripts(html) ==
    LET no_scripts == SubBlocks(html, 1, <<"<", "s", "c", "r", "i", "p", "t">>,
                                <<"<", "/", "s", "c", "r", "i", "p", "t", ">">>)
        no_styles == SubBlocks(no_scripts, 1, <<"<", "s", "t", "y", "l", "e">>,
                               <<"<", "/", "s", "t", "y", "l", "e", ">">>)
        no_comments == SubComments(no_styles, 1)
        text == unescape(SubTags(no_comments, 1))
    IN  SqueezeSpaces(text)

\* What requests.get(url, ...) does: it raises a RequestException (no
\* connection, timeout) or returns a response with a status code and a text.
\* resp.raise_for_status() raises HTTPError, a RequestException, for the
\* status codes 400..599.
IsHttpError(status_code) == 400 <= status_code /\ status_code < 600

\* Mutant: the status of the response is not looked at.
find_in_webpage_AnyStatus(resp) ==
    IF resp.raised # "none" THEN [raised |-> resp.raised, returned |-> None]
    ELSE [raised |-> "none",
          returned |-> find_phone_numbers(strip_tags_and_scripts(resp.text), TRUE)]

\* find_in_webpage(url) when requests.get does resp: the exception that
\* leaves the function, if any, and the list returned, if any.
find_in_webpage(resp) ==
    IF resp.raised # "none" THEN [raised |-> resp.raised, returned |-> None]
    ELSE IF IsHttpError(resp.status_code) THEN [raised |-> "HTTPError", returned |-> None]
    ELSE [raised |-> "none",
          returned |-> find_phone_numbers(strip_tags_and_scripts(resp.text), TRUE)]

\* The texts searched: a beginning, a prefix, what follows the prefix, the
\* digits and an end.
TextHeads == {<<>>,
     <<"a", " ">>,
     <<"5">>,
     <<"+", "7", " ", "9", "9", "9", " ", "1", "2", "3", " ", "4", "5", " ", "6", "7", ",", " ">>}
TextPrefixes == {<<"+", "7">>,
     <<"8">>,
     <<"7">>}
TextGaps == {<<>>,
     <<" ">>,
     <<" ", "(">>,
     <<")">>,
     <<"-">>}
TextBodies == {<<"9", "9", "9", "1", "2", "3", "4", "5", "6", "7">>,
     <<"9", "9", "9", ")", " ", "1", "2", "3", "-", "4", "5", "-", "6", "7">>,
     <<"9", "0", "0", ")", "-", "-", "-", "0", "0", "0", "-", "-", "0", "0", "-", "-", "0", "0">>,
     <<"9", "9", "9", "1", "2", "3", "4", "5", "6">>,
     <<"9", "9", "9", "1", "2", "3", "4", "5", "6", "7", "8">>,
     <<"8", "0", "0", " ", "5", "5", "5", " ", "3", "5", " ", "3", "5">>}
TextTails == {<<>>,
     <<"5">>,
     <<" ", "5">>,
     <<"a">>,
     <<")">>,
     <<",", " ", "8", " ", "(", "8", "0", "0", ")", " ", "5", "5", "5", "-", "3", "5", "-", "3", "5">>}
PhoneTexts ==
    {h \o p \o g \o b \o t :
        h \in TextHeads, p \in TextPrefixes, g \in TextGaps, b \in TextBodies, t \in TextTails}

\* The pages served
Pages == {<<"<", "h", "t", "m", "l", ">", "<", "b", "o", "d", "y", ">", "n", ":", " ", "+", "7", "(", "9", "2", "1", ")", "5", "5", "5", "-", "5", "5", "-", "5", "5", "<", "/", "b", "o", "d", "y", ">", "<", "/", "h", "t", "m", "l", ">">>,
     <<"<", "p", ">", "8", " ", "<", "b", ">", "8", "0", "0", "<", "/", "b", ">", " ", "5", "5", "5", "&", "n", "b", "s", "p", ";", "3", "5", "&", "n", "b", "s", "p", ";", "3", "5", "<", "/", "p", ">", "<", "s", "c", "r", "i", "p", "t", ">", "v", "a", "r", " ", "t", " ", "=", " ", "'", "+", "7", " ", "9", "9", "9", " ", "1", "2", "3", " ", "4", "5", " ", "6", "7", "'", ";", "<", "/", "s", "c", "r", "i", "p", "t", ">">>,
     <<"<", "s", "t", "y", "l", "e", ">", "b", "{", "t", "o", "p", ":", "8", "9", "9", "9", "1", "2", "3", "4", "5", "6", "7", "p", "x", "}", "<", "/", "s", "t", "y", "l", "e", ">", "&", "#", "4", "3", ";", "7", " ", "(", "9", "9", "9", ")", " ", "1", "2", "3", "-", "4", "5", "-", "6", "7", "<", "!", "-", "-", " ", "8", " ", "8", "0", "0", " ", "5", "5", "5", " ", "3", "5", " ", "3", "5", " ", "-", "-", ">", " ", "&", "a", "m", "p", ";", " ", "8", "-", "8", "0", "0", "-", "5", "5", "5", "-", "3", "5", "-", "3", "5">>,
     <<"4", "0", "4", " ", "<", "a", " ", "h", "r", "e", "f", "=", "'", "t", "e", "l", ":", "+", "7", "9", "9", "9", "1", "2", "3", "4", "5", "6", "7", "'", ">", "x", "<", "/", "a", ">", " ", "1", "2", "3", "4", "5", "6", "7", "8", "9", "0">>,
     <<>>}

\* The outcomes of requests.get
Responses ==
    {[raised |-> e, status_code |-> 0, text |-> <<>>] : e \in {"ConnectionError", "Timeout"}}
    \cup {[raised |-> "none", status_code |-> s, text |-> page] :
            s \in {200, 204, 404, 503}, page \in Pages}

\* No function of Lab2 is running.
Idle == Polling

OnFindPhoneNumbers ==
    /\ update = Idle
    /\ \E text \in PhoneTexts, normalize \in BOOLEAN :
         update' = [handler |-> "find_phone_numbers", text |-> text, normalize |-> normalize,
                    returned |-> find_phone_numbers(text, normalize)]
    /\ UNCHANGED <<clarification_context, tasks, storeVars>>

OnFindInWebpage ==
    /\ update = Idle
    /\ \E resp \in Responses :
         update' = [handler |-> "find_in_webpage", resp |-> resp,
                    raised |-> find_in_webpage(resp).raised,
                    returned |-> find_in_webpage(resp).returned]
    /\ UNCHANGED <<clarification_context, tasks, storeVars>>

NextPhone ==
    \/ OnFindPhoneNumbers
    \/ OnFindInWebpage
    \/ NextUpdate

SpecPhone == Init /\ [][NextPhone]_vars

----------------------------------------------------------------------------
(* The handlers as coroutines of the event loop.  A handler runs on the    *)
(* loop's one thread from a suspension point to the next; its suspension   *)
(* points are the awaits of reply_text.  The calls of the classifier       *)
(* (requests.post) and of the calendar (.execute()) are ordinary calls:    *)
(* the handler keeps the thread until they return.  The transport layer    *)
(* decides when the handler of an update starts; it may start it while     *)
(* handlers of earlier updates are suspended.                              *)

LoopUsers == {"u1", "u2"}

\* The updates: "да", "нет", "удали обед", /start, "/view 2025-11-28",
\* "/delete evt0123456"
LoopUpdates ==
    {[handler |-> "handle_message", text |-> <<"ru_d", "ru_a">>],
     [handler |-> "handle_message", text |-> <<"ru_n", "ru_e", "ru_t">>],
     [handler |-> "handle_message", text |-> DeleteWord \o <<"ru_o", "ru_b", "ru_e", "ru_d">>],
     [handler |-> "handle_start", text |-> <<"/", "s", "t", "a", "r", "t">>],
     [handler |-> "handle_view", text |-> CommandView \o <<" ">> \o Date1],
     [handler |-> "handle_delete_command", text |-> CommandDelete \o <<" ">> \o EventId1]}

\* The classifier's answers: none, a delete by title.
LoopLLMOutcomes ==
    {<<>>,
     <<[intent |-> "delete", confidence |-> 100,
        slots |-> [title |-> Title1, start |-> None, end |-> None, date |-> Date1,
                   participants |-> None, description |-> None, location |-> None,
                   event_id |-> None],
        clarify |-> [needed |-> FALSE, questions |-> <<>>]]>>}

\* The backend's answers: a failure, or success with the one event of the day.
LoopCalendarOutcomes == {NoAnswer, [ok |-> TRUE, items |-> <<Event1>>]}

\* The handler registered for the update (main.py, add_handler)
RunHandler(handler, st, u, text, llm, cal) ==
    CASE handler = "handle_message" -> handle_message(st, u, text, llm, cal)
      [] handler = "handle_start" -> handle_start(st)
      [] handler = "handle_add" -> handle_add(st, u, text, llm, cal)
      [] handler = "handle_view" -> handle_view(st, u, text, llm, cal)
      [] handler = "handle_delete_command" -> handle_delete_command(st, u, text, llm, cal)

\* What the handler of task t does on the store ctx up to its return when the
\* classifier answers llm and the backend cal.
Run(t, ctx, llm, cal) == RunHandler(t.handler, Begin(ctx), t.user, t.text, llm, cal)

\* Mutant: the state is removed before the reply is awaited.
RemovalAfterReply_Never(ctx, u, eff) == FALSE

\* The one handler path that changes the store after a suspension point: the
\* affirmative reply to a delete confirmation deletes the event, awaits its
\* reply and then removes the state.
RemovalAfterReply(ctx, u, eff) ==
    /\ u \in DOMAIN ctx
    /\ \E k \in DOMAIN eff.trace : eff.trace[k] = "_handle_clarification_response"
    /\ GetFlag(ctx[u], "waiting_delete_confirmation")
    /\ IsAffirmative(eff.user_message)
    /\ Truthy(Get(ctx[u], "event_id", None))

\* A handler is inside a call of the classifier or of the calendar: the
\* thread of the event loop is not free.
Blocked == \E i \in DOMAIN tasks : tasks[i].pc \in {"in_classifier", "in_calendar"}

\* An update of user u arrives and the transport layer creates the coroutine
\* of its handler.
Arrive(u) ==
    /\ Len(tasks) < MaxInFlight
    /\ \E upd \in LoopUpdates :
         tasks' = Append(tasks, [pc |-> "scheduled", handler |-> upd.handler, user |-> u,
                                 text |-> upd.text, llm |-> <<>>, context_data |-> <<>>,
                                 calls |-> <<>>, replies |-> <<>>])
    /\ UNCHANGED <<clarification_context, update, storeVars>>

\* The handler of task i has run up to the await of its reply, with effects
\* eff: the store is changed, unless the change comes after the reply.
Suspend(i, eff) ==
    LET t == tasks[i]
        later == RemovalAfterReply(clarification_context, t.user, eff)
    IN  /\ tasks' = [tasks EXCEPT ![i] =
                        [t EXCEPT !.pc = IF later THEN "awaiting_reply_then_del"
                                         ELSE "awaiting_reply",
                                  !.llm = <<>>, !.text = <<>>, !.calls = eff.calls,
                                  !.replies = eff.replies]]
        /\ clarification_context' = IF later THEN clarification_context ELSE eff.ctx
        /\ UNCHANGED <<update, storeVars>>

\* The event loop starts the coroutine of task i: it runs to its first call of
\* the classifier or the calendar, or to the await of its reply.
Start(i) ==
    LET t == tasks[i]
        probe == Run(t, clarification_context, <<>>, NoAnswer)
        context_data == IF \E k \in DOMAIN probe.trace :
                               probe.trace[k] = "_handle_clarification_response"
                        THEN <<clarification_context[t.user]>> ELSE <<>>
    IN  /\ i \in DOMAIN tasks
        /\ t.pc = "scheduled"
        /\ ~Blocked
        /\ IF probe.llm_calls # <<>>
           THEN /\ tasks' = [tasks EXCEPT ![i].pc = "in_classifier"]
                /\ UNCHANGED <<clarification_context, update, storeVars>>
           ELSE IF probe.calls # <<>>
           THEN /\ tasks' = [tasks EXCEPT ![i].pc = "in_calendar",
                                          ![i].context_data = context_data]
                /\ UNCHANGED <<clarification_context, update, storeVars>>
           ELSE /\ tasks' = [tasks EXCEPT ![i].pc = "awaiting_reply", ![i].text = <<>>,
                                          ![i].context_data = context_data,
                                          ![i].replies = probe.replies]
                /\ clarification_context' = probe.ctx
                /\ UNCHANGED <<update, storeVars>>

\* requests.post returns or raises: the handler goes on to its call of the
\* calendar or to the await of its reply.
ClassifierReturns(i) ==
    /\ i \in DOMAIN tasks
    /\ tasks[i].pc = "in_classifier"
    /\ \E llm \in LoopLLMOutcomes :
         LET eff == Run(tasks[i], clarification_context, llm, NoAnswer)
         IN  IF eff.calls # <<>>
             THEN /\ tasks' = [tasks EXCEPT ![i].pc = "in_calendar", ![i].llm = llm]
                  /\ UNCHANGED <<clarification_context, update, storeVars>>
             ELSE Suspend(i, eff)

\* .execute() returns or raises: the handler goes on to the await of its reply.
CalendarReturns(i) ==
    /\ i \in DOMAIN tasks
    /\ tasks[i].pc = "in_calendar"
    /\ \E cal \in LoopCalendarOutcomes :
         Suspend(i, Run(tasks[i], clarification_context, tasks[i].llm, cal))

\* The sequence s without its i-th element
Without(s, i) == SubSeq(s, 1, i - 1) \o SubSeq(s, i + 1, Len(s))

\* The reply is sent and the event loop resumes the coroutine of task i, which
\* runs to its return and is over: del self.clarification_context[user_id]
\* raises KeyError when the state is gone.
Resume(i) ==
    LET t == tasks[i]
    IN  /\ i \in DOMAIN tasks
        /\ t.pc \in {"awaiting_reply", "awaiting_reply_then_del"}
        /\ ~Blocked
        /\ IF t.pc = "awaiting_reply"
           THEN /\ tasks' = Without(tasks, i)
                /\ UNCHANGED <<clarification_context, update, storeVars>>
           ELSE IF t.user \in DOMAIN clarification_context
           THEN /\ tasks' = Without(tasks, i)
                /\ clarification_context' = Del(clarification_context, t.user)
                /\ UNCHANGED <<update, storeVars>>
           ELSE /\ tasks' = [tasks EXCEPT ![i].pc = "raised"]
                /\ UNCHANGED <<clarification_context, update, storeVars>>

\* error_handler has answered for the coroutine of task i, which raised.
Finish(i) ==
    /\ i \in DOMAIN tasks
    /\ tasks[i].pc = "raised"
    /\ tasks' = Without(tasks, i)
    /\ UNCHANGED <<clarification_context, update, storeVars>>

NextLoop ==
    \/ \E u \in LoopUsers : Arrive(u)
    \/ \E i \in 1..MaxInFlight : Start(i)
    \/ \E i \in 1..MaxInFlight : ClassifierReturns(i)
    \/ \E i \in 1..MaxInFlight : CalendarReturns(i)
    \/ \E i \in 1..MaxInFlight : Resume(i)
    \/ \E i \in 1..MaxInFlight : Finish(i)

SpecLoop == Init /\ [][NextLoop]_vars

----------------------------------------------------------------------------
(* src/Lab1/main.py: the store.  Objects are kept by identity: a Product   *)
(* is its id in products, a CartItem its position in items, a list object  *)
(* its position in lists, so that two references to one object show its     *)
(* changes to both.  Prices are whole numbers.                               *)

\* Most stock of a product and most orders.
MaxStock == 2
MaxOrders == 1

\* The arguments of the calls: product ids (3 is no product of the store),
\* customer ids (2 is no customer of the store), quantities, prices and stocks.
ProductIds == DOMAIN ProductsAtStart
ProductArguments == ProductIds \cup {3}
Customers == {1}
CustomerArguments == Customers \cup {2}
Quantities == {1, 2}
StockChanges == {-2, -1, 1}
Keywords == {[price |-> 20], [price |-> 10, stock |-> 2]}

\* Most CartItem objects created: as many as one cart can hold.
MaxCartItems == Cardinality(ProductIds)

\* Mutant: the stock is changed without the test.
update_stock_Unchecked(stock, quantity) == [raised |-> "none", stock |-> stock + quantity]

\* Product.update_stock(quantity) on a product with this stock: the exception
\* raised, if any, and the stock afterwards.
update_stock(stock, quantity) ==
    IF stock + quantity < 0
    THEN [raised |-> "InsufficientStockError", stock |-> stock]
    ELSE [raised |-> "none", stock |-> stock + quantity]

\* CartItem.subtotal() with the products ps
subtotal(item, ps) == ps[item.product].price * item.quantity

\* sum(item.subtotal() for item in items) over the CartItems at refs
RECURSIVE SumSubtotals(_, _, _)
SumSubtotals(refs, its, ps) ==
    IF refs = <<>> THEN 0
    ELSE subtotal(its[Head(refs)], ps) + SumSubtotals(Tail(refs), its, ps)

\* The loop of create_order over the CartItems at refs, from the k-th on:
\* each product's stock is updated in turn, and the first exception ends the
\* loop with the stocks updated so far.
RECURSIVE UpdateStocks(_, _, _)
UpdateStocks(ps, refs, k) ==
    IF k > Len(refs) THEN [raised |-> "none", products |-> ps]
    ELSE LET item == items[refs[k]]
             r == update_stock(ps[item.product].stock, -item.quantity)
         IN  IF r.raised # "none" THEN [raised |-> r.raised, products |-> ps]
             ELSE UpdateStocks([ps EXCEPT ![item.product].stock = r.stock], refs, k + 1)

\* A list object that no order refers to is, once the cart drops it, garbage:
\* there are never more list objects than orders and the cart.
Referenced(l) == \E o \in DOMAIN orders : orders[o].items = l

\* cart.add_item(store.find_product(p), q)
add_item(p, q) ==
    LET refs == lists[cart]
        same == {k \in DOMAIN refs : items[refs[k]].product = p}
        first == CHOOSE k \in same : \A j \in same : k <= j
    IN  /\ IF same # {}
           THEN /\ items[refs[first]].quantity + q <= MaxStock
                /\ items' = [items EXCEPT ![refs[first]].quantity = @ + q]
                /\ UNCHANGED lists
           ELSE /\ Len(items) < MaxCartItems
                /\ items' = Append(items, [product |-> p, quantity |-> q])
                /\ lists' = [lists EXCEPT ![cart] = Append(@, Len(items) + 1)]
        /\ call' = [op |-> "add_item", raised |-> "none"]
        /\ UNCHANGED <<products, cart, orders, botVars>>

\* The cart's items become a new list object with the elements xs; the list
\* object dropped is reused for it when nothing else refers to it.
Rebind(xs) ==
    IF Referenced(cart)
    THEN /\ lists' = Append(lists, xs)
         /\ cart' = Len(lists) + 1
    ELSE /\ lists' = [lists EXCEPT ![cart] = xs]
         /\ UNCHANGED cart

\* cart.remove_item(p)
remove_item(p) ==
    LET refs == lists[cart]
        IsKept(ref) == items[ref].product # p
    IN  /\ Rebind(SelectSeq(refs, IsKept))
        /\ call' = [op |-> "remove_item", raised |-> "none"]
        /\ UNCHANGED <<products, items, orders, botVars>>

\* cart = ShoppingCart(customer): the customer starts a new cart
ShoppingCart ==
    /\ lists[cart] # <<>>
    /\ Rebind(<<>>)
    /\ call' = [op |-> "ShoppingCart", raised |-> "none"]
    /\ UNCHANGED <<products, items, orders, botVars>>

\* store.create_order(c, cart)
create_order(c) ==
    LET refs == lists[cart]
        r == UpdateStocks(products, refs, 1)
        raised == IF c \notin Customers THEN "CustomerNotFoundError" ELSE r.raised
    IN  /\ Len(orders) < MaxOrders
        /\ c \in Customers => \A p \in ProductIds : r.products[p].stock <= MaxStock
        /\ products' = IF c \in Customers THEN r.products ELSE products
        /\ orders' = IF raised # "none" THEN orders
                     ELSE Append(orders, [id |-> Len(orders) + 1, customer |-> c,
                                          items |-> cart, status |-> "created",
                                          total |-> SumSubtotals(refs, items, products)])
        /\ call' = [op |-> "create_order", raised |-> raised]
        /\ UNCHANGED <<items, lists, cart, botVars>>

\* store.find_product(p).update_stock(q)
Product_update_stock(p, q) ==
    LET r == update_stock(products[p].stock, q)
    IN  /\ r.stock <= MaxStock
        /\ products' = [products EXCEPT ![p].stock = r.stock]
        /\ call' = [op |-> "update_stock", product_id |-> p, quantity |-> q,
                    raised |-> r.raised]
        /\ UNCHANGED <<items, lists, cart, orders, botVars>>

\* store.update_product(p, **kw): setattr for each keyword that is an attribute
update_product(p, kw) ==
    /\ products' = IF p \notin ProductIds THEN products
                   ELSE [products EXCEPT ![p] = [f \in DOMAIN @ |->
                                                    IF f \in DOMAIN kw THEN kw[f] ELSE @[f]]]
    /\ call' = [op |-> "update_product",
                raised |-> IF p \in ProductIds THEN "none" ELSE "ProductNotFoundError"]
    /\ UNCHANGED <<items, lists, cart, orders, botVars>>

\* The calls that C37 speaks of, with the cart operations that fill the cart.
NextStock ==
    \/ \E p \in ProductIds, q \in Quantities : add_item(p, q)
    \/ \E p \in ProductIds : remove_item(p)
    \/ ShoppingCart
    \/ \E c \in CustomerArguments : create_order(c)
    \/ \E p \in ProductIds, q \in StockChanges : Product_update_stock(p, q)

SpecStock == Init /\ [][NextStock]_vars

NextStore ==
    \/ NextStock
    \/ \E p \in ProductArguments, kw \in Keywords : update_product(p, kw)

SpecStore == Init /\ [][NextStore]_vars

----------------------------------------------------------------------------
(* Vocabulary of the properties.  A state with update # Polling is the     *)
(* state right after one handler run: update.before is the context store   *)
(* before the run, clarification_context the store after it.               *)

Sender == update.user

\* The handler entered this method of MessageHandler.
Entered(method) == \E i \in DOMAIN update.trace : update.trace[i] = method

\* The classifier was asked and returned an Intent Result, which was evaluated.
Evaluated == update.llm_calls # <<>> /\ update.llm_calls[1].returned # <<>>
Result == update.llm_calls[1].returned[1]

\* The sender's pending state before and after the run.
HadPending == Sender \in DOMAIN update.before
HasPending == Sender \in DOMAIN clarification_context
PendingBefore == update.before[Sender]
PendingNow == clarification_context[Sender]

\* A calendar operation was called / an Action Dispatcher operation was entered.
NoCalendarCall == update.calls = <<>>
NoDispatch ==
    ~Entered("_handle_create") /\ ~Entered("_handle_list") /\ ~Entered("_handle_delete")

\* The three variants of a pending state.
IsAwaitingClarification(d) ==
    DOMAIN d = {"intent", "slots", "questions", "current_question_index"}
IsAwaitingIntentConfirmation(d) ==
    DOMAIN d = {"intent", "slots", "waiting_confirmation"} /\ d.waiting_confirmation = TRUE
IsAwaitingDeleteConfirmation(d) ==
    DOMAIN d = {"waiting_delete_confirmation", "event_id"}
    /\ d.waiting_delete_confirmation = TRUE

----------------------------------------------------------------------------
(* C1 *)

\* What C1 promises of an evaluated Intent Result r.
C1_Outcome(r) ==
    /\ r.clarify.questions # <<>>
    /\ update.replies = <<[msg |-> "question", text |-> r.clarify.questions[1]]>>
    /\ HasPending
    /\ IsAwaitingClarification(PendingNow)
    /\ PendingNow.current_question_index = 0
    /\ PendingNow.questions = r.clarify.questions
    /\ NoCalendarCall

\* C1 as stated: every evaluated Intent Result with clarify.needed = true,
\* whatever its question list, makes the first question the only reply and leaves
\* an awaiting-clarification state with cursor 0 and all the questions; no
\* calendar operation is called.
C1_AsStated == (Evaluated /\ Result.clarify.needed) => C1_Outcome(Result)

\* C1 (amended): every evaluated Intent Result with clarify.needed = true and a
\* non-empty question list, whatever its intent and confidence, makes the first
\* question the only reply and leaves an awaiting-clarification state with cursor
\* 0 and all the questions; no calendar operation is called.
C1_ClarificationStored ==
    (Evaluated /\ Result.clarify.needed /\ Result.clarify.questions # <<>>)
        => C1_Outcome(Result)

\* A low-confidence delete by identifier asks its first of two questions.
C1_Witness ==
    /\ Evaluated
    /\ Result.clarify.needed
    /\ Len(Result.clarify.questions) = 2
    /\ Result.intent = "delete"
    /\ Result.confidence < LLM_CONFIDENCE_THRESHOLD
    /\ Result.slots.event_id = EventId1
    /\ update.replies = <<[msg |-> "question", text |-> "q1"]>>

----------------------------------------------------------------------------
(* C2 *)

\* What C2 promises of an evaluated Intent Result r.
C2_Outcome(r) ==
    /\ HasPending
    /\ IsAwaitingIntentConfirmation(PendingNow)
    /\ PendingNow.intent = r.intent
    /\ PendingNow.slots = r.slots
    /\ update.replies = <<[msg |-> "confirm_intent", summary |-> format_confirmation(r)]>>
    /\ NoDispatch
    /\ NoCalendarCall

\* C2 as stated: every evaluated Intent Result with confidence below the
\* threshold leaves an awaiting-intent-confirmation state with its intent and
\* slots, is answered by the summary with the yes/no prompt, and no dispatcher
\* operation runs.
C2_AsStated ==
    (Evaluated /\ Result.confidence < LLM_CONFIDENCE_THRESHOLD) => C2_Outcome(Result)

\* C2 (amended): every evaluated Intent Result with confidence below the
\* threshold for which no clarifying question is asked (clarify.needed false or
\* no questions) leaves an awaiting-intent-confirmation state with its intent and
\* slots, is answered by the summary with the yes/no prompt, and no dispatcher
\* operation runs; when a clarifying question is asked no dispatcher operation
\* runs either.
C2_LowConfidenceConfirms ==
    (Evaluated /\ Result.confidence < LLM_CONFIDENCE_THRESHOLD)
        => /\ NoDispatch
           /\ NoCalendarCall
           /\ ~(Result.clarify.needed /\ Result.clarify.questions # <<>>)
                => C2_Outcome(Result)

\* A delete by identifier guessed with confidence 0.79 is not executed.
C2_Witness ==
    /\ Evaluated
    /\ Result.confidence = 79
    /\ ~Result.clarify.needed
    /\ Result.intent = "delete"
    /\ Result.slots.event_id = EventId1
    /\ HasPending
    /\ IsAwaitingIntentConfirmation(PendingNow)
    /\ PendingNow.slots.event_id = EventId1

----------------------------------------------------------------------------
(* C3 *)

\* The dispatch of an Intent Result r by its intent was made.
DispatchedByIntent(r) ==
    CASE r.intent = "create" -> Entered("_handle_create")
      [] r.intent = "list" -> Entered("_handle_list")
      [] r.intent = "delete" -> Entered("_handle_delete")
      [] OTHER -> update.replies = <<[msg |-> "help_unknown"]>>

\* C3: an evaluated Intent Result leads to an awaiting-intent-confirmation
\* state only if its confidence is strictly below the threshold; with
\* clarify.needed = false and confidence equal to the threshold it is dispatched
\* by its intent and no awaiting-intent-confirmation state is stored.
C3_StrictThreshold ==
    Evaluated =>
        /\ (HasPending /\ IsAwaitingIntentConfirmation(PendingNow))
              => Result.confidence < LLM_CONFIDENCE_THRESHOLD
        /\ (~Result.clarify.needed /\ Result.confidence = LLM_CONFIDENCE_THRESHOLD)
              => /\ DispatchedByIntent(Result)
                 /\ ~(HasPending /\ IsAwaitingIntentConfirmation(PendingNow))

\* An Intent Result with confidence 0.80 creates its event at once.
C3_Witness ==
    /\ Evaluated
    /\ Result.confidence = LLM_CONFIDENCE_THRESHOLD
    /\ ~Result.clarify.needed
    /\ Result.intent = "create"
    /\ Len(update.calls) = 1
    /\ update.calls[1].op = "create_event"
    /\ ~HasPending

----------------------------------------------------------------------------
(* C4 *)

\* C4: an evaluated Intent Result with confidence >= threshold, clarify.needed
\* = false, intent create and a non-empty title and start makes exactly one
\* calendar call, create_event with the title, start, end, description, location
\* and participants of its slots, and the sender has no pending state afterwards.
C4_CreateDispatchedOnce ==
    (/\ Evaluated
     /\ Result.confidence >= LLM_CONFIDENCE_THRESHOLD
     /\ ~Result.clarify.needed
     /\ Result.intent = "create"
     /\ Truthy(Result.slots.title)
     /\ Truthy(Result.slots.start))
        => /\ Len(update.calls) = 1
           /\ update.calls[1].op = "create_event"
           /\ update.calls[1].title = Result.slots.title
           /\ update.calls[1].start_datetime = Result.slots.start
           /\ update.calls[1].end_datetime = Result.slots.end
           /\ update.calls[1].description = Result.slots.description
           /\ update.calls[1].location = Result.slots.location
           /\ update.calls[1].participants = Result.slots.participants
           /\ ~HasPending

\* An event with every slot given is created at confidence 1.0.
C4_Witness ==
    /\ Evaluated
    /\ Result.confidence = 100
    /\ ~Result.clarify.needed
    /\ Result.intent = "create"
    /\ Result.slots.title = Title1
    /\ Result.slots.start = Start1
    /\ Result.slots.description = Description1
    /\ Result.slots.location = Location1
    /\ Len(update.calls) = 1
    /\ update.calls[1].op = "create_event"
    /\ update.calls[1].returned # <<>>

----------------------------------------------------------------------------
(* C5 - C7: replies to a yes/no question *)

\* The token sets as the specification gives them.
YesTokens ==
    {<<"ru_d", "ru_a">>,
     <<"y", "e", "s">>,
     <<"ru_d", "ru_a", "ru_v", "ru_a", "ru_j">>,
     <<"ru_o", "ru_k">>,
     <<"ru_h", "ru_o", "ru_r", "ru_o", "ru_sh", "ru_o">>}
NoTokens ==
    {<<"ru_n", "ru_e", "ru_t">>,
     <<"n", "o">>,
     <<"ru_n", "ru_e">>,
     <<"ru_n", "ru_e", "ru_p", "ru_r", "ru_a", "ru_v", "ru_i", "ru_l", "ru_soft", "ru_n", "ru_o">>}

\* The update is a reply: a text handled while its sender has a pending state.
IsReply == Entered("_handle_clarification_response") /\ HadPending

\* The reply lowercased and trimmed.
ReplyToken == strip(lower(update.user_message))

\* The one reply is the report of the one calendar call, a delete of event_id.
DeleteReported(event_id) ==
    /\ Len(update.calls) = 1
    /\ update.calls[1].op = "delete_event"
    /\ update.calls[1].event_id = event_id
    /\ update.replies =
         <<[msg |-> IF update.calls[1].returned THEN "deleted" ELSE "delete_failed"]>>

\* C5: an affirmative reply to an awaiting-delete-confirmation state with event
\* identifier E makes exactly one calendar call, delete_event(E), reports its
\* success or failure, and leaves the sender without pending state.
C5_DeleteConfirmed ==
    (/\ IsReply
     /\ IsAwaitingDeleteConfirmation(PendingBefore)
     /\ ReplyToken \in YesTokens)
        => /\ DeleteReported(PendingBefore.event_id)
           /\ ~HasPending

\* " Да " confirms the delete of an event and the backend refuses it.
C5_Witness ==
    /\ IsReply
    /\ IsAwaitingDeleteConfirmation(PendingBefore)
    /\ PendingBefore.event_id = EventId1
    /\ update.text = <<" ", "RU_D", "ru_a", " ">>
    /\ Len(update.calls) = 1
    /\ update.calls[1].returned = FALSE
    /\ update.replies = <<[msg |-> "delete_failed"]>>
    /\ ~HasPending

\* A plain message of a sender without pending state is passed, trimmed, to the
\* classifier, exactly once.
FreshInputClassified ==
    (update.handler = "handle_message" /\ ~HadPending)
        => /\ Len(update.llm_calls) = 1
           /\ update.llm_calls[1].utterance = strip(update.text)

\* C6: a negative reply to an awaiting-intent-confirmation or
\* awaiting-delete-confirmation state removes the sender's pending state, calls
\* no calendar operation and enters no dispatcher operation, whatever the state
\* holds; and a plain message of a sender without pending state, such as a second
\* negative reply, is classified as fresh input.
C6_Cancellation ==
    /\ (/\ IsReply
        /\ \/ IsAwaitingIntentConfirmation(PendingBefore)
           \/ IsAwaitingDeleteConfirmation(PendingBefore)
        /\ ReplyToken \in NoTokens)
          => /\ ~HasPending
             /\ NoCalendarCall
             /\ NoDispatch
    /\ FreshInputClassified

\* "неправильно" cancels the confirmation of a delete by identifier.
C6_Witness ==
    /\ IsReply
    /\ IsAwaitingIntentConfirmation(PendingBefore)
    /\ PendingBefore.intent = "delete"
    /\ PendingBefore.slots.event_id = EventId1
    /\ Len(update.user_message) = 11
    /\ ReplyToken \in NoTokens
    /\ ~HasPending
    /\ update.replies = <<[msg |-> "rephrase_request"]>>

\* C7: a reply to an awaiting-intent-confirmation or awaiting-delete-confirmation
\* state that is neither an affirmative nor a negative token leaves the context
\* store as it was, is answered by the yes/no re-prompt alone, and calls neither
\* the classifier nor a calendar operation.
C7_UnrecognizedReply ==
    (/\ IsReply
     /\ \/ IsAwaitingIntentConfirmation(PendingBefore)
        \/ IsAwaitingDeleteConfirmation(PendingBefore)
     /\ ReplyToken \notin YesTokens \cup NoTokens)
        => /\ clarification_context = update.before
           /\ update.replies = <<[msg |-> "answer_yes_or_no"]>>
           /\ update.llm_calls = <<>>
           /\ NoCalendarCall
           /\ NoDispatch

\* "да!" leaves the delete confirmation pending.
C7_Witness ==
    /\ IsReply
    /\ IsAwaitingDeleteConfirmation(PendingBefore)
    /\ update.text = <<"ru_d", "ru_a", "!">>
    /\ HasPending
    /\ PendingNow = PendingBefore
    /\ update.replies = <<[msg |-> "answer_yes_or_no"]>>

----------------------------------------------------------------------------
(* C8 - C10: delete *)

\* The slots the dispatcher works on: those of the evaluated Intent Result, or
\* those of the confirmed pending state.
DispatchedSlots == IF Evaluated THEN Result.slots ELSE PendingBefore.slots

\* _handle_delete searched by title: it listed the events of a date.
TitleSearch ==
    /\ Entered("_handle_delete")
    /\ update.calls # <<>>
    /\ update.calls[1].op = "list_events"

\* The listed events whose title contains the requested one, case-insensitively.
Found == update.calls[1].returned
MatchingPositions ==
    {i \in DOMAIN Found :
        /\ Found[i].summary # None
        /\ Contains(lower(DispatchedSlots.title), lower(Found[i].summary))}
Matching == Select(Found, MatchingPositions)

NoDeleteCall == \A i \in DOMAIN update.calls : update.calls[i].op # "delete_event"

\* C8: when the title search of a delete finds exactly one event, with
\* identifier E, no calendar delete is called in that run and the sender is left
\* awaiting delete confirmation for E; an awaiting-delete-confirmation state is
\* stored by nothing else; and every calendar delete is either the delete of the
\* identifier given in the slots, the delete of the identifier given to /delete,
\* or the delete of the E of the sender's awaiting-delete-confirmation state on
\* an affirmative reply of that sender.
C8_NoDeleteWithoutConfirmation ==
    /\ (TitleSearch /\ Len(Matching) = 1)
          => /\ NoDeleteCall
             /\ HasPending
             /\ PendingNow = [waiting_delete_confirmation |-> TRUE,
                              event_id |-> Matching[1].id]
    /\ (/\ HasPending
        /\ IsAwaitingDeleteConfirmation(PendingNow)
        /\ (HadPending => PendingBefore # PendingNow))
          => /\ TitleSearch
             /\ Len(Matching) = 1
             /\ PendingNow.event_id = Matching[1].id
    /\ \A i \in DOMAIN update.calls :
          update.calls[i].op = "delete_event"
            => \/ /\ Entered("_handle_delete")
                  /\ Truthy(DispatchedSlots.event_id)
                  /\ update.calls[i].event_id = DispatchedSlots.event_id
               \/ /\ update.handler = "handle_delete_command"
                  /\ ~Entered("handle_message")
               \/ /\ IsReply
                  /\ IsAwaitingDeleteConfirmation(PendingBefore)
                  /\ update.calls[i].event_id = PendingBefore.event_id
                  /\ ReplyToken \in YesTokens

\* "Обед" is found once, as "обед", among two events of the day.
C8_Witness ==
    /\ Evaluated
    /\ Result.intent = "delete"
    /\ TitleSearch
    /\ Found = <<Event1, Event3>>
    /\ DispatchedSlots.title = Title1
    /\ HasPending
    /\ PendingNow = [waiting_delete_confirmation |-> TRUE, event_id |-> EventId1]
    /\ update.calls = <<[op |-> "list_events", date |-> Today, returned |-> Found]>>

\* C9: when _handle_delete runs on slots with a non-empty event_id, the only
\* calendar call is delete_event with that identifier (no list of events), its
\* success or failure is the reply, and the sender has no pending state
\* afterwards.
C9_DeleteByIdentifier ==
    (Entered("_handle_delete") /\ Truthy(DispatchedSlots.event_id))
        => /\ DeleteReported(DispatchedSlots.event_id)
           /\ ~HasPending

\* A delete with both a title and an identifier deletes by the identifier.
C9_Witness ==
    /\ Evaluated
    /\ Result.intent = "delete"
    /\ Result.slots.event_id = EventId1
    /\ Result.slots.title = Title1
    /\ Entered("_handle_delete")
    /\ update.calls =
         <<[op |-> "delete_event", event_id |-> EventId1, returned |-> TRUE]>>
    /\ update.replies = <<[msg |-> "deleted"]>>

\* identifier[:8], spelled out
First8(id) == IF Len(id) > 8 THEN <<id[1], id[2], id[3], id[4], id[5], id[6], id[7], id[8]>>
              ELSE id

\* C10: when the title search of a delete finds two or more events, the one
\* reply lists every one of them, in order, with its identifier cut to 8
\* characters, no calendar delete is called, the sender has no pending state
\* afterwards, and a plain message of a sender without pending state is
\* classified as fresh input.
C10_SeveralMatches ==
    /\ (TitleSearch /\ Len(Matching) >= 2)
          => /\ Len(update.replies) = 1
             /\ update.replies[1].msg = "found_several"
             /\ Len(update.replies[1].lines) = Len(Matching)
             /\ \A k \in 1..Len(Matching) :
                   /\ update.replies[1].lines[k].n = k
                   /\ update.replies[1].lines[k].summary = Matching[k].summary
                   /\ update.replies[1].lines[k].id = First8(Matching[k].id)
             /\ NoDeleteCall
             /\ ~HasPending
    /\ FreshInputClassified

\* "Обед" is found twice, in "обед" and in "ОБЕД 2".
C10_Witness ==
    /\ TitleSearch
    /\ Found = <<Event1, Event2, Event3>>
    /\ Len(Matching) = 2
    /\ update.replies[1].lines[1].id = <<"e", "v", "t", "0", "1", "2", "3", "4">>
    /\ update.replies[1].lines[2].id = EventId2
    /\ ~HasPending

----------------------------------------------------------------------------
(* C11 - C13: replies to an intent confirmation and to clarifying questions *)

\* The pending state before the run has been removed: the sender has none, or
\* the one the delete search stored in this run.
OldStateCleared ==
    HasPending => (IsAwaitingDeleteConfirmation(PendingNow) /\ TitleSearch)

\* C11 as stated: an affirmative reply to an awaiting-intent-confirmation state
\* removes that state, does not ask the classifier, and dispatches the stored
\* intent with the stored slots: create, list and delete enter their dispatcher
\* operation, and the stored intent unknown is answered by the help message.
C11_AsStated ==
    (/\ IsReply
     /\ IsAwaitingIntentConfirmation(PendingBefore)
     /\ ReplyToken \in YesTokens)
        => /\ OldStateCleared
           /\ update.llm_calls = <<>>
           /\ DispatchedByIntent(PendingBefore)

\* The reply is one a clarifying exchange sends: a question, or the closing pair.
ClosingReplies == <<[msg |-> "thanks_processing"], [msg |-> "repeat_request"]>>

\* C12: a reply to an awaiting-clarification state with n >= 1 questions and
\* cursor c < n-1 leaves the same state with cursor c+1 and is answered by the
\* question at c+1 alone; a reply with the cursor at n-1 removes the state and is
\* answered by the request to restate; the cursor of a stored state is in 0..n-1
\* and the question last sent is the one at the cursor.
C12_ClarificationProgress ==
    /\ (IsReply /\ IsAwaitingClarification(PendingBefore))
          => LET n == Len(PendingBefore.questions)
                 c == PendingBefore.current_question_index
             IN  /\ n >= 1
                 /\ c \in 0..(n - 1)
                 /\ c < n - 1 =>
                       /\ HasPending
                       /\ PendingNow = [PendingBefore EXCEPT !.current_question_index = c + 1]
                       /\ update.replies =
                            <<[msg |-> "question", text |-> PendingBefore.questions[c + 2]]>>
                 /\ c = n - 1 =>
                       /\ ~HasPending
                       /\ update.replies = ClosingReplies
    /\ (/\ HasPending
        /\ IsAwaitingClarification(PendingNow)
        /\ (HadPending => PendingBefore # PendingNow))
          => /\ PendingNow.current_question_index \in 0..(Len(PendingNow.questions) - 1)
             /\ update.replies =
                  <<[msg |-> "question",
                     text |-> PendingNow.questions[PendingNow.current_question_index + 1]]>>

\* The first of two questions is answered and the second one is asked.
C12_Witness ==
    /\ IsReply
    /\ IsAwaitingClarification(PendingBefore)
    /\ Len(PendingBefore.questions) = 2
    /\ PendingBefore.current_question_index = 0
    /\ HasPending
    /\ PendingNow.current_question_index = 1
    /\ update.replies = <<[msg |-> "question", text |-> "q2"]>>

----------------------------------------------------------------------------
(* C14 *)

\* What C14 promises of an evaluated Intent Result.
C14_Outcome ==
    /\ update.replies = <<[msg |-> "help_unknown"]>>
    /\ ~HasPending

\* C14 as stated: every evaluated Intent Result with intent unknown is answered
\* by the help message and leaves no pending state.
C14_AsStated == (Evaluated /\ Result.intent = "unknown") => C14_Outcome

\* C14 (amended): every evaluated Intent Result with intent unknown for which no
\* clarifying question is asked and whose confidence is not below the threshold
\* is answered by the help message alone and leaves no pending state.
C14_UnknownHelp ==
    (/\ Evaluated
     /\ Result.intent = "unknown"
     /\ ~(Result.clarify.needed /\ Result.clarify.questions # <<>>)
     /\ Result.confidence >= LLM_CONFIDENCE_THRESHOLD)
        => C14_Outcome

\* An unknown intent at the threshold, with needed set but no question.
C14_Witness ==
    /\ Evaluated
    /\ Result.intent = "unknown"
    /\ Result.confidence = LLM_CONFIDENCE_THRESHOLD
    /\ Result.clarify.needed
    /\ Result.clarify.questions = <<>>
    /\ update.replies = <<[msg |-> "help_unknown"]>>
    /\ ~HasPending

----------------------------------------------------------------------------
(* C15 *)

\* The reply was handled by the branch of its pending state's variant.
RoutedByVariant ==
    /\ Entered("_handle_clarification_response")
    /\ IsAwaitingDeleteConfirmation(PendingBefore) =>
          /\ Len(update.replies) = 1
          /\ update.replies[1].msg \in
                {"deleted", "delete_failed", "delete_cancelled", "answer_yes_or_no"}
    /\ IsAwaitingIntentConfirmation(PendingBefore) =>
          \/ ReplyToken \in YesTokens /\ OldStateCleared
          \/ update.replies = <<[msg |-> "rephrase_request"]>>
          \/ update.replies = <<[msg |-> "answer_yes_or_no"]>>
    /\ IsAwaitingClarification(PendingBefore) =>
          \/ Len(update.replies) = 1 /\ update.replies[1].msg = "question"
          \/ update.replies = ClosingReplies

\* C15: for every message that enters handle_message, if its sender has a
\* pending state the message is handled by the reply branch of that state's
\* variant and the classifier is not asked; if the sender has none the classifier
\* is asked exactly once, with the trimmed text, and an Intent Result it returns
\* is evaluated by _process_llm_response.
C15_EntryRule ==
    Entered("handle_message") =>
        /\ HadPending =>
              /\ \/ IsAwaitingClarification(PendingBefore)
                 \/ IsAwaitingIntentConfirmation(PendingBefore)
                 \/ IsAwaitingDeleteConfirmation(PendingBefore)
              /\ RoutedByVariant
              /\ update.llm_calls = <<>>
              /\ ~Entered("_process_llm_response")
        /\ ~HadPending =>
              /\ Len(update.llm_calls) = 1
              /\ update.llm_calls[1].utterance = update.user_message
              /\ ~Entered("_handle_clarification_response")
              /\ Evaluated <=> Entered("_process_llm_response")
              /\ ~Evaluated => update.replies = <<[msg |-> "llm_error"]>>

\* "/add удали обед" is taken as the answer to the delete confirmation.
C15_Witness ==
    /\ update.handler = "handle_add"
    /\ Entered("handle_message")
    /\ HadPending
    /\ IsAwaitingDeleteConfirmation(PendingBefore)
    /\ update.llm_calls = <<>>
    /\ update.replies = <<[msg |-> "answer_yes_or_no"]>>

----------------------------------------------------------------------------
(* C16, C17: validation in the dispatcher *)

\* C16: when _handle_create runs on slots whose title or start is absent or
\* empty, the one reply is the validation message, no calendar operation is
\* called and the sender has no pending state afterwards.
C16_CreateValidation ==
    (/\ Entered("_handle_create")
     /\ \/ ~Truthy(DispatchedSlots.title)
        \/ ~Truthy(DispatchedSlots.start))
        => /\ update.replies = <<[msg |-> "create_needs_title_and_start"]>>
           /\ NoCalendarCall
           /\ ~HasPending

\* A create with a start and an empty title is refused.
C16_Witness ==
    /\ Evaluated
    /\ Result.intent = "create"
    /\ Entered("_handle_create")
    /\ Result.slots.title = <<>>
    /\ Result.slots.start = Start1
    /\ update.replies = <<[msg |-> "create_needs_title_and_start"]>>
    /\ NoCalendarCall

\* C17: when _handle_list runs on slots with neither a date nor a start, the one
\* reply asks for a date and no calendar operation is called.
C17_ListNeedsDate ==
    (/\ Entered("_handle_list")
     /\ ~Truthy(DispatchedSlots.date)
     /\ ~Truthy(DispatchedSlots.start))
        => /\ update.replies = <<[msg |-> "need_date"]>>
           /\ NoCalendarCall

\* A confirmed list without date and start asks for the date.
C17_Witness ==
    /\ IsReply
    /\ IsAwaitingIntentConfirmation(PendingBefore)
    /\ PendingBefore.intent = "list"
    /\ PendingBefore.slots.date = None
    /\ PendingBefore.slots.start = None
    /\ Entered("_handle_list")
    /\ update.replies = <<[msg |-> "need_date"]>>

----------------------------------------------------------------------------
(* C18 - C20: the calendar client *)

\* The run sent an event body to the calendar.
EventSent ==
    /\ Entered("_handle_create")
    /\ update.requests # <<>>
    /\ update.requests[1].api = "events.insert"
SentBody == update.requests[1].body

\* An optional key of the body, None when it is absent.
BodyKey(key) == IF key \in DOMAIN SentBody THEN SentBody[key] ELSE None

\* The day number of a date in the proleptic Gregorian calendar (date.toordinal).
LeapsBefore(year) == (year - 1) \div 4 - (year - 1) \div 100 + (year - 1) \div 400
DaysBeforeMonth == <<0, 31, 59, 90, 120, 151, 181, 212, 243, 273, 304, 334>>
Ordinal(year, month, day) ==
    365 * (year - 1) + LeapsBefore(year) + DaysBeforeMonth[month]
    + (IF month > 2 /\ IsLeap(year) THEN 1 ELSE 0) + day

\* The minute of the wall clock an ISO-8601 text names, and its second.
ClockMinute(iso) ==
    (Ordinal(YearNumber(iso[1]), Number(iso[2]), Number(iso[3])) * 24 + Number(iso[4])) * 60
    + Number(iso[5])

\* The offset an ISO-8601 text names: its own, +00:00 for "Z", the configured
\* time zone's when it has none.
OffsetOf(iso) ==
    IF iso[7] = "Z" THEN "+00:00" ELSE IF iso[7] = "" THEN "+03:00" ELSE iso[7]

\* The body's date-time b is the instant the slot's text names, as written.
AsGiven(b, slot) ==
    /\ SubSeq(b, 1, 6) = SubSeq(slot, 1, 6)
    /\ b[7] = OffsetOf(slot)

\* C18: in the event body of a created event the start is slots.start as given;
\* the end is slots.end as given when slots.end is present, also when it precedes
\* the start, and otherwise the start plus the default duration of 60 minutes on
\* the same offset.
C18_EndTime ==
    EventSent =>
        /\ AsGiven(SentBody.start.dateTime, DispatchedSlots.start)
        /\ DispatchedSlots.end # None =>
              AsGiven(SentBody.end.dateTime, DispatchedSlots.end)
        /\ DispatchedSlots.end = None =>
              /\ ClockMinute(SentBody.end.dateTime)
                    = ClockMinute(SentBody.start.dateTime) + DEFAULT_EVENT_DURATION_MIN
              /\ SentBody.end.dateTime[6] = SentBody.start.dateTime[6]
              /\ SentBody.end.dateTime[7] = SentBody.start.dateTime[7]

\* An event that starts at 23:00 on 31 December ends at 00:00 on 1 January.
C18_Witness ==
    /\ EventSent
    /\ DispatchedSlots.start = <<"2025", "12", "31", "23", "00", "00", "+03:00">>
    /\ DispatchedSlots.end = None
    /\ SentBody.end.dateTime = <<"2026", "01", "01", "00", "00", "00", "+03:00">>

HasAt(participant) == Contains(<<"@">>, participant)
HasNoAt(participant) == ~HasAt(participant)

\* The participants of the dispatched request, [] when there is no list.
GivenParticipants ==
    IF DispatchedSlots.participants = None THEN <<>> ELSE DispatchedSlots.participants
Invitees == SelectSeq(GivenParticipants, HasAt)
PlainNames == SelectSeq(GivenParticipants, HasNoAt)

\* C19 as stated: in the event body of a created event the attendees are the
\* participants that contain "@", in order; with no participant without "@" the
\* description is slots.description unchanged; otherwise the description is
\* slots.description, if any, followed by a single label and the comma-joined
\* participants without "@", and only those.
C19_AsStated ==
    EventSent =>
        /\ BodyKey("attendees") =
              (IF Invitees = <<>> THEN None
               ELSE [i \in DOMAIN Invitees |-> [email |-> Invitees[i]]])
        /\ PlainNames = <<>> =>
              BodyKey("description") =
                 (IF Truthy(DispatchedSlots.description)
                  THEN DispatchedSlots.description ELSE None)
        /\ PlainNames # <<>> =>
              BodyKey("description") =
                 (IF Truthy(DispatchedSlots.description)
                  THEN DispatchedSlots.description \o <<"\n">> ELSE <<>>)
                 \o ParticipantsLabel \o Join(PlainNames)

\* The replies that report an operation carried out.
SuccessReplies ==
    {"created", "deleted", "events", "no_events", "not_found", "found_one_delete_it",
     "found_several", "delete_cancelled"}

\* C20 as stated: when a request to the calendar fails, whether an insert, a
\* list (for a list intent or for the title search of a delete) or a delete,
\* the run sends exactly one reply, which is none of the replies of a successful
\* operation, and the request is the only one of the run.
C20_AsStated ==
    \A i \in DOMAIN update.requests :
        update.requests[i].failed
          => /\ Len(update.replies) = 1
             /\ update.replies[1].msg \notin SuccessReplies
             /\ Len(update.requests) = 1
             /\ Len(update.calls) = 1

----------------------------------------------------------------------------
(* C21 *)

\* The classifier was asked for a message of a sender without pending state
\* and produced no Intent Result (request failure, no JSON, failed validation:
\* parse_user_message returns None for each).
ClassifierGaveNothing ==
    ~HadPending /\ update.llm_calls # <<>> /\ update.llm_calls[1].returned = <<>>

\* C21: when the classifier yields no result for a fresh message, the only
\* reply is the generic "could not process, try rephrasing" message, the
\* classifier is not called again, no dispatcher operation runs, no calendar
\* operation is called and no pending state is stored.
C21_ClassifierFailure ==
    ClassifierGaveNothing
        => /\ update.replies = <<[msg |-> "llm_error"]>>
           /\ Len(update.llm_calls) = 1
           /\ NoDispatch
           /\ NoCalendarCall
           /\ update.requests = <<>>
           /\ ~HasPending

\* "удали обед" is sent, the classifier fails, the sender is told to rephrase.
C21_Witness ==
    /\ update.handler = "handle_message"
    /\ update.text = DeleteWord \o <<"ru_o", "ru_b", "ru_e", "ru_d">>
    /\ ClassifierGaveNothing
    /\ update.replies = <<[msg |-> "llm_error"]>>
    /\ clarification_context = EmptyDict

----------------------------------------------------------------------------
(* C25 *)

\* The text after the command word of the /add update.
AddTrailingText == strip(Remove(update.text, CommandAdd))

\* C25 as stated: /add with non-empty trailing text and no pending state asks
\* the classifier about the trailing text, without the command word; /add with
\* empty trailing text is answered by the usage message, with no classifier
\* call and no calendar call.
C25_AsStated ==
    update.handler = "handle_add" =>
        IF AddTrailingText = <<>>
        THEN /\ update.replies = <<[msg |-> "usage_add"]>>
             /\ update.llm_calls = <<>>
             /\ NoCalendarCall
        ELSE ~HadPending =>
                /\ Len(update.llm_calls) = 1
                /\ update.llm_calls[1].utterance = AddTrailingText

----------------------------------------------------------------------------
(* C26 *)

\* The argument of the /delete update.
DeleteArgument == strip(Remove(update.text, CommandDelete))

\* C26: /delete with an argument shorter than 50 characters and without a
\* space calls delete with the argument as the event identifier and nothing
\* else: no classifier call, no confirmation, no pending state read or changed
\* (handle_message is not entered); its one reply reports the deletion or its
\* failure.  Any other non-empty argument is forwarded to handle_message as
\* "удали <argument>".
C26_DeleteCommand ==
    (update.handler = "handle_delete_command" /\ DeleteArgument # <<>>) =>
        IF Len(DeleteArgument) < 50 /\ \A i \in DOMAIN DeleteArgument : DeleteArgument[i] # " "
        THEN /\ Len(update.calls) = 1
             /\ update.calls[1].op = "delete_event"
             /\ update.calls[1].event_id = DeleteArgument
             /\ update.llm_calls = <<>>
             /\ update.trace = <<"handle_delete_command">>
             /\ clarification_context = update.before
             /\ Len(update.replies) = 1
             /\ update.replies[1].msg =
                   (IF update.calls[1].returned THEN "deleted" ELSE "delete_failed_check_id")
        ELSE /\ Entered("handle_message")
             /\ update.user_message = DeleteWord \o DeleteArgument

\* /delete evt0123456 deletes at once although the sender has a pending state.
C26_Witness ==
    /\ update.handler = "handle_delete_command"
    /\ DeleteArgument = EventId1
    /\ HadPending
    /\ update.replies = <<[msg |-> "deleted"]>>
    /\ clarification_context = update.before

\* /delete with 50 characters "x" is forwarded as a request in words.
C26_WitnessForwarded ==
    /\ update.handler = "handle_delete_command"
    /\ Len(DeleteArgument) = 50
    /\ update.llm_calls # <<>>
    /\ update.llm_calls[1].utterance = DeleteWord \o Xs(50)

----------------------------------------------------------------------------
(* C29 *)

\* The whole message, lowercased and trimmed, is an affirmative or a negative
\* token.
WholeMessageIsToken == strip(lower(strip(update.text))) \in YesTokens \cup NoTokens

\* The update is a command that is forwarded as a request in words: /add or
\* /view with trailing text, /delete with an argument that is not taken as an
\* identifier.
ForwardedCommand ==
    \/ update.handler = "handle_add" /\ AddTrailingText # <<>>
    \/ update.handler = "handle_view" /\ strip(Remove(update.text, CommandView)) # <<>>
    \/ /\ update.handler = "handle_delete_command"
       /\ DeleteArgument # <<>>
       /\ (Len(DeleteArgument) >= 50 \/ \E i \in DOMAIN DeleteArgument : DeleteArgument[i] = " ")

----------------------------------------------------------------------------
(* C30 *)

\* The calendar day written in an ISO-8601 date and time, as YYYY-MM-DD.
DayOf(start) == <<start[1], "-", start[2], "-", start[3]>>

\* The one calendar call of the run lists the events of the date.
Queried(date) ==
    /\ update.calls # <<>>
    /\ update.calls[1].op = "list_events"
    /\ update.calls[1].date = date

\* C30: a list queries slots.date when present, otherwise the day of
\* slots.start, otherwise it stops with the need-a-date reply and no calendar
\* call; a delete by title (no event identifier, a title) queries slots.date,
\* otherwise the day of slots.start, otherwise today's date.  slots.date wins
\* over slots.start when both are present.
C30_TargetDate ==
    /\ Entered("_handle_list") =>
          IF Truthy(DispatchedSlots.date) THEN Queried(DispatchedSlots.date)
          ELSE IF Truthy(DispatchedSlots.start) THEN Queried(DayOf(DispatchedSlots.start))
          ELSE update.replies = <<[msg |-> "need_date"]>> /\ NoCalendarCall
    /\ (/\ Entered("_handle_delete")
        /\ ~Truthy(DispatchedSlots.event_id)
        /\ Truthy(DispatchedSlots.title)) =>
          IF Truthy(DispatchedSlots.date) THEN Queried(DispatchedSlots.date)
          ELSE IF Truthy(DispatchedSlots.start) THEN Queried(DayOf(DispatchedSlots.start))
          ELSE Queried(Today)

\* A list with date 2025-11-28 and start on 2025-11-27 queries 2025-11-28.
C30_Witness ==
    /\ Entered("_handle_list")
    /\ DispatchedSlots.date = Date1
    /\ DispatchedSlots.start = Start1
    /\ DayOf(Start1) # Date1
    /\ Queried(Date1)

\* A delete by title without date and start searches today's events.
C30_WitnessToday ==
    /\ Entered("_handle_delete")
    /\ DispatchedSlots.title = Title1
    /\ DispatchedSlots.date = None
    /\ DispatchedSlots.start = None
    /\ Queried(Today)

----------------------------------------------------------------------------
(* C27 *)

\* The characters that may separate the digits of a number: space, hyphen and
\* the two parentheses.
Separators == {" ", "-", "(", ")"}

\* The position of the n-th digit at or after p with nothing but digits and
\* separators before it, 0 when there is none.
RECURSIVE NthDigit(_, _, _)
NthDigit(text, p, n) ==
    IF p > Len(text) THEN 0
    ELSE IF text[p] \in Digits THEN (IF n = 1 THEN p ELSE NthDigit(text, p + 1, n - 1))
    ELSE IF text[p] \in Separators THEN NthDigit(text, p + 1, n)
    ELSE 0

\* The position after the prefix +7 or 8 written at i, 0 when none is written.
AfterPrefix(text, i) ==
    IF text[i] = "8" THEN i + 1
    ELSE IF i < Len(text) /\ text[i] = "+" /\ text[i + 1] = "7" THEN i + 2
    ELSE 0

\* A number is written at i: a prefix, then exactly ten digits with separators
\* among them, of which only those of gap between the prefix and the first
\* digit, and no digit right before the prefix or right after the tenth digit.
\* The value is the position of the tenth digit, 0 when no number is written.
WrittenNumber(text, i, gap) ==
    LET p == AfterPrefix(text, i)
        first == IF p = 0 THEN 0 ELSE NthDigit(text, p, 1)
        tenth == IF p = 0 THEN 0 ELSE NthDigit(text, p, 10)
    IN  IF tenth = 0 THEN 0
        ELSE IF i > 1 /\ text[i - 1] \in Digits THEN 0
        ELSE IF tenth < Len(text) /\ text[tenth + 1] \in Digits THEN 0
        ELSE IF \E k \in p..(first - 1) : text[k] \notin gap THEN 0
        ELSE tenth

\* "+7" and the ten digits of each number written in the text at or after i,
\* in the order of the text.
RECURSIVE WrittenNumbers(_, _, _)
WrittenNumbers(text, i, gap) ==
    IF i > Len(text) THEN <<>>
    ELSE LET tenth == WrittenNumber(text, i, gap)
         IN  IF tenth = 0 THEN WrittenNumbers(text, i + 1, gap)
             ELSE <<<<"+", "7">>
                      \o SelectSeq(SubSeq(text, AfterPrefix(text, i), tenth), IsDigit)>>
                  \o WrittenNumbers(text, tenth + 1, gap)

Normalizing == update.handler = "find_phone_numbers" /\ update.normalize

----------------------------------------------------------------------------
(* C28 *)

\* The request failed: requests.get raised, or the status is an HTTP error.
RequestFailed ==
    update.resp.raised # "none"
    \/ (400 <= update.resp.status_code /\ update.resp.status_code <= 599)

\* The exceptions that are a requests.RequestException
RequestExceptions == {"ConnectionError", "Timeout", "HTTPError"}

\* C28: when the HTTP request fails (requests.get raises, or the status of the
\* response is an HTTP error) find_in_webpage raises a requests.RequestException
\* and returns no list; otherwise it raises nothing and returns
\* find_phone_numbers of the text that _strip_tags_and_scripts extracts from the
\* page.
C28_WebpageOutcome ==
    update.handler = "find_in_webpage" =>
        IF RequestFailed
        THEN update.raised \in RequestExceptions /\ update.returned = None
        ELSE /\ update.raised = "none"
             /\ update.returned =
                   find_phone_numbers(strip_tags_and_scripts(update.resp.text), TRUE)

\* A page with a phone number served with status 404 raises and returns no list.
C28_Witness ==
    /\ update.handler = "find_in_webpage"
    /\ update.resp.raised = "none"
    /\ update.resp.status_code = 404
    /\ find_phone_numbers(strip_tags_and_scripts(update.resp.text), TRUE) # <<>>
    /\ update.raised = "HTTPError"
    /\ update.returned = None

\* The page of test_find_in_webpage served with status 200 yields its number.
C28_WitnessSuccess ==
    /\ update.handler = "find_in_webpage"
    /\ update.resp.status_code = 200
    /\ update.raised = "none"
    /\ update.returned = <<<<"+", "7", "9", "2", "1", "5", "5", "5", "5", "5", "5", "5">>>>

----------------------------------------------------------------------------
(* C22 - C24: the handlers on the event loop *)

\* The pending state of identity b: no state, or one.
PendingOf(b) ==
    IF b \in DOMAIN clarification_context THEN <<clarification_context[b]>> ELSE <<>>

\* The step is a step of the handler of a message or command of identity b.
HandlerStepOf(b) ==
    \E i \in DOMAIN tasks :
        /\ tasks[i].user = b
        /\ Start(i) \/ ClassifierReturns(i) \/ CalendarReturns(i) \/ Resume(i)

\* C22: the store holds at most one pending state per identity, and the
\* pending state of an identity is created, changed or removed only by a step
\* of the handler of a message or command of that identity, whether the handler
\* succeeds, reports a failure or raises: handling an update of A leaves the
\* state of B as it is, and no step other than a handler's (no expiry)
\* changes a state.
C22_Isolation ==
    /\ [](DOMAIN clarification_context \subseteq LoopUsers)
    /\ [][\A b \in LoopUsers : PendingOf(b)' # PendingOf(b) => HandlerStepOf(b)]_vars

\* u1 has cancelled its own deletion while u2's confirmation is still pending.
C22_Witness ==
    /\ "u1" \notin DOMAIN clarification_context
    /\ "u2" \in DOMAIN clarification_context
    /\ IsAwaitingDeleteConfirmation(clarification_context["u2"])
    /\ \E i \in DOMAIN tasks :
         /\ tasks[i].user = "u1"
         /\ tasks[i].pc = "awaiting_reply"
         /\ tasks[i].replies = <<[msg |-> "delete_cancelled"]>>

\* C23 as stated: while the handler of one identity waits for the classifier or
\* the calendar, the handler of a waiting update of another identity can be
\* started.
C23_AsStated ==
    \A i, j \in DOMAIN tasks :
        (/\ tasks[i].pc \in {"in_classifier", "in_calendar"}
         /\ tasks[j].pc = "scheduled"
         /\ tasks[j].user # tasks[i].user)
            => ENABLED Start(j)

\* The handler of task t answered an awaiting-delete-confirmation state with an
\* affirmative reply and called delete.
AnsweredYes(t) ==
    /\ t.context_data # <<>>
    /\ IsAwaitingDeleteConfirmation(t.context_data[1])
    /\ t.calls # <<>>

\* C24: the store is not locked between the check and the removal of a delete
\* confirmation: a handler that answered an affirmative reply has invoked
\* delete(E) once and is suspended at its reply with the removal of the state
\* still ahead, so that a second affirmative reply of the identity handled
\* meanwhile finds the state, invokes delete(E) again, and the later removal
\* raises KeyError; a handler raises on no other path.
C24_Race ==
    \A i \in DOMAIN tasks :
        LET t == tasks[i]
        IN  /\ (AnsweredYes(t) /\ t.pc \in {"awaiting_reply", "awaiting_reply_then_del"})
                 => /\ t.pc = "awaiting_reply_then_del"
                    /\ Len(t.calls) = 1
                    /\ t.calls[1].op = "delete_event"
                    /\ t.calls[1].event_id = t.context_data[1].event_id
            /\ t.pc = "raised" => AnsweredYes(t)

\* Two affirmative replies of u1 to one state are in flight and each has
\* invoked delete of the same event.
C24_Witness ==
    /\ Len(tasks) = 2
    /\ tasks[1].user = "u1" /\ tasks[2].user = "u1"
    /\ AnsweredYes(tasks[1]) /\ AnsweredYes(tasks[2])
    /\ tasks[1].pc = "awaiting_reply_then_del" /\ tasks[2].pc = "awaiting_reply_then_del"
    /\ tasks[1].context_data = tasks[2].context_data
    /\ tasks[1].calls[1].event_id = EventId1 /\ tasks[2].calls[1].event_id = EventId1
    /\ tasks[1].calls[1].returned /\ tasks[2].calls[1].returned

\* The later of the two removals finds no state and raises KeyError.
C24_WitnessKeyError ==
    \E i \in DOMAIN tasks :
        /\ tasks[i].pc = "raised"
        /\ AnsweredYes(tasks[i])
        /\ tasks[i].user \notin DOMAIN clarification_context

----------------------------------------------------------------------------
(* C31 *)

\* The not-found reply of a title search for the dispatched title on a date.
NotFoundReply(date) ==
    [msg |-> "not_found", title |-> DispatchedSlots.title, date |-> format_date_for_user(date)]

\* C31: a dispatched delete with neither event identifier nor title answers
\* that a title is required and calls no calendar operation; with a title and
\* no event of the target date whose title contains it (case-insensitively), it
\* answers not-found, calls no calendar delete and leaves the sender without a
\* pending state.
C31_DeleteByTitleGate ==
    /\ (/\ Entered("_handle_delete")
        /\ ~Truthy(DispatchedSlots.event_id)
        /\ ~Truthy(DispatchedSlots.title))
          => /\ update.replies = <<[msg |-> "delete_needs_title"]>>
             /\ NoCalendarCall
    /\ (TitleSearch /\ Len(Matching) = 0)
          => /\ update.replies = <<NotFoundReply(update.calls[1].date)>>
             /\ NoDeleteCall
             /\ ~HasPending

\* The day has an event, but none whose title contains "Обед": not found.
C31_Witness ==
    /\ TitleSearch
    /\ DispatchedSlots.title = Title1
    /\ Found = <<Event3>>
    /\ Len(Matching) = 0
    /\ update.replies = <<NotFoundReply(Date1)>>
    /\ ~HasPending

\* A confident delete with neither identifier nor title asks for the title.
C31_WitnessNoTitle ==
    /\ Evaluated
    /\ Entered("_handle_delete")
    /\ DispatchedSlots.event_id = None
    /\ DispatchedSlots.title = None
    /\ update.replies = <<[msg |-> "delete_needs_title"]>>
    /\ NoCalendarCall

----------------------------------------------------------------------------
(* C32 *)

\* C32 as stated: every text message handled by handle_message to completion
\* is answered with at least one reply to the sender.
C32_AsStated == Entered("handle_message") => update.replies # <<>>

----------------------------------------------------------------------------
(* C33 *)

\* The pending state d is one of the three variants, with the fields of that
\* variant only.
WellFormed(d) ==
    \/ /\ IsAwaitingClarification(d)
       /\ d.questions # <<>>
       /\ 0 <= d.current_question_index
       /\ d.current_question_index <= Len(d.questions) - 1
    \/ IsAwaitingIntentConfirmation(d)
    \/ IsAwaitingDeleteConfirmation(d)

\* C33: every stored pending state is exactly one of: awaiting clarification
\* (a non-empty question list, a cursor from 0 to the number of questions - 1,
\* no confirmation flag), awaiting intent confirmation (intent and slots, no
\* questions, no delete flag), awaiting delete confirmation (an event
\* identifier, no intent-confirmation flag); the two flags are never set
\* together.
C33_WellFormed ==
    \A u \in DOMAIN clarification_context :
        /\ WellFormed(clarification_context[u])
        /\ ~(/\ GetFlag(clarification_context[u], "waiting_confirmation")
             /\ GetFlag(clarification_context[u], "waiting_delete_confirmation"))

\* After the answer to the first of two questions the cursor is at the last
\* question.
C33_Witness ==
    /\ IsReply
    /\ IsAwaitingClarification(PendingBefore)
    /\ PendingBefore.current_question_index = 0
    /\ HasPending
    /\ IsAwaitingClarification(PendingNow)
    /\ Len(PendingNow.questions) = 2
    /\ PendingNow.current_question_index = 1

\* A title search that found one event leaves a delete confirmation pending.
C33_WitnessDelete ==
    /\ TitleSearch
    /\ HasPending
    /\ IsAwaitingDeleteConfirmation(PendingNow)
    /\ PendingNow.event_id = EventId1

----------------------------------------------------------------------------
(* C34 *)

\* The operations of the Action Dispatcher
DispatcherOperations == {"_handle_create", "_handle_list", "_handle_delete"}

\* C34: with the messages of an identity handled one at a time, whenever
\* _handle_create, _handle_list or _handle_delete starts for an identity, that
\* identity has no pending state; so a state the dispatcher stores overwrites
\* none.
C34_DispatchFromEmpty ==
    \A i \in DOMAIN update.trace :
        update.trace[i] \in DispatcherOperations => Sender \notin update.pending[i]

\* A confirmed low-confidence delete by title: the sender had a pending state
\* when the reply arrived, none when _handle_delete started, and has the
\* delete confirmation after it.
C34_Witness ==
    /\ IsReply
    /\ IsAwaitingIntentConfirmation(PendingBefore)
    /\ update.trace = <<"handle_message", "_handle_clarification_response", "_handle_delete">>
    /\ Sender \in update.pending[2]
    /\ Sender \notin update.pending[3]
    /\ HasPending
    /\ IsAwaitingDeleteConfirmation(PendingNow)

----------------------------------------------------------------------------
(* C35 *)

\* The update is an affirmative reply to the confirmation of a delete intent.
ConfirmsDelete ==
    /\ IsReply
    /\ IsAwaitingIntentConfirmation(PendingBefore)
    /\ PendingBefore.intent = "delete"
    /\ ReplyToken \in YesTokens

\* The run called the calendar delete of event_id, once, and nothing else.
DeletedOnly(event_id) ==
    /\ Len(update.calls) = 1
    /\ update.calls[1].op = "delete_event"
    /\ update.calls[1].event_id = event_id

\* The update is a /delete command that names an identifier: it is handled
\* outside the dialogue, by handle_delete_command alone.
DeleteCommandWithIdentifier ==
    update.handler = "handle_delete_command" /\ update.trace = <<"handle_delete_command">>

\* C35: an affirmative reply to the confirmation of a delete intent stored
\* with a title, no event identifier and exactly one matching event E calls no
\* calendar delete and leaves the sender awaiting delete confirmation for E;
\* while that confirmation is pending, the dialogue calls delete(E) on an
\* affirmative reply and on no other message (a /delete command that names an
\* identifier deletes outside the dialogue).  When the confirmed intent was
\* stored with an event identifier, the first affirmative reply calls the
\* delete of it.
C35_TwoStepConfirmation ==
    /\ (/\ ConfirmsDelete
        /\ ~Truthy(PendingBefore.slots.event_id)
        /\ Truthy(PendingBefore.slots.title)
        /\ TitleSearch
        /\ Len(Matching) = 1)
          => /\ NoDeleteCall
             /\ HasPending
             /\ PendingNow = [waiting_delete_confirmation |-> TRUE,
                              event_id |-> Matching[1].id]
    /\ (HadPending /\ IsAwaitingDeleteConfirmation(PendingBefore))
          => IF IsReply /\ ReplyToken \in YesTokens
             THEN DeletedOnly(PendingBefore.event_id) /\ ~HasPending
             ELSE NoDeleteCall \/ DeleteCommandWithIdentifier
    /\ (ConfirmsDelete /\ Truthy(PendingBefore.slots.event_id))
          => DeletedOnly(PendingBefore.slots.event_id) /\ ~HasPending

\* First step: "да" confirms the low-confidence delete of "Обед"; one event
\* is found and nothing is deleted yet.
C35_Witness ==
    /\ ConfirmsDelete
    /\ PendingBefore.slots.title = Title1
    /\ PendingBefore.slots.event_id = None
    /\ TitleSearch
    /\ Len(Matching) = 1
    /\ NoDeleteCall
    /\ HasPending
    /\ PendingNow = [waiting_delete_confirmation |-> TRUE, event_id |-> EventId1]

\* Second step: the affirmative reply to the delete confirmation deletes E.
C35_WitnessSecondStep ==
    /\ IsReply
    /\ PendingBefore = [waiting_delete_confirmation |-> TRUE, event_id |-> EventId1]
    /\ ReplyToken \in YesTokens
    /\ DeletedOnly(EventId1)
    /\ ~HasPending

\* A confirmed delete stored with an event identifier deletes at once.
C35_WitnessById ==
    /\ ConfirmsDelete
    /\ PendingBefore.slots.event_id = EventId1
    /\ DeletedOnly(EventId1)

----------------------------------------------------------------------------
(* C36 - C38: the store *)

\* The quantity of product p in the cart, 0 when the cart has no item of it.
RECURSIVE QuantityIn(_, _)
QuantityIn(refs, p) ==
    IF refs = <<>> THEN 0
    ELSE (IF items[Head(refs)].product = p THEN items[Head(refs)].quantity ELSE 0)
         + QuantityIn(Tail(refs), p)

\* C36 as stated: a create_order that raises changes no product's stock and
\* adds no order; one that succeeds reduces the stock of each cart item's
\* product by the item's quantity and appends exactly one order.
C36_AsStated ==
    [][call'.op = "create_order" =>
          IF call'.raised # "none"
          THEN /\ \A p \in ProductIds : products'[p].stock = products[p].stock
               /\ orders' = orders
          ELSE /\ \A p \in ProductIds :
                     products'[p].stock = products[p].stock - QuantityIn(lists[cart], p)
               /\ Len(orders') = Len(orders) + 1
               /\ SubSeq(orders', 1, Len(orders)) = orders]_vars

\* C37: the stock of every product stays >= 0 under any sequence of
\* update_stock and create_order calls, and an update_stock(q) on a product
\* with stock + q < 0 raises InsufficientStockError and leaves every stock as
\* it was; any other update_stock(q) adds q to the stock.
C37_StockNeverNegative ==
    /\ [](\A p \in ProductIds : products[p].stock >= 0)
    /\ [][call'.op = "update_stock" =>
             LET p == call'.product_id
                 q == call'.quantity
             IN  IF products[p].stock + q < 0
                 THEN call'.raised = "InsufficientStockError" /\ products' = products
                 ELSE /\ call'.raised = "none"
                      /\ products' = [products EXCEPT ![p].stock = @ + q]]_vars

\* update_stock(-2) on a product with stock 1 has raised: the stock is still 1.
C37_Witness ==
    /\ call.op = "update_stock"
    /\ call.quantity = -2
    /\ call.raised = "InsufficientStockError"
    /\ products[call.product_id].stock = 1

\* An order has taken the whole stock of a product.
C37_WitnessOrder ==
    /\ call.op = "create_order"
    /\ call.raised = "none"
    /\ orders # <<>>
    /\ \E p \in ProductIds : products[p].stock = 0 /\ QuantityIn(lists[orders[1].items], p) > 0

\* The CartItems of order o, as they are now.
OrderItems(o) == [k \in DOMAIN lists[orders[o].items] |-> items[lists[orders[o].items][k]]]

\* C38 as stated: the total of every order is the sum over its items of
\* product price times quantity, and add_item and remove_item on the cart
\* change the items of no order.
C38_AsStated ==
    /\ [](\A o \in DOMAIN orders :
             orders[o].total = SumSubtotals(lists[orders[o].items], items, products))
    /\ [][call'.op \in {"add_item", "remove_item"} =>
             \A o \in DOMAIN orders : OrderItems(o)' = OrderItems(o)]_vars

====
